---- MODULE Spec2Model ----
(***************************************************************************)
(* A model of the JsonBuilder packed tree storage engine.                  *)
(*                                                                         *)
(* The arena (m_storage) is modelled at the level of its 4-byte storage    *)
(* units (StoragePod): a function from unit index to the four bytes of     *)
(* the unit.  Nodes are read from and written to the units exactly as the  *)
(* code does through reinterpret_cast<JsonValue&>(m_storage[index]):       *)
(*   unit index+0 : m_nextIndex                                            *)
(*   unit index+1 : m_cchName (low 24 bits), m_type (high 8 bits)          *)
(*   unit index+2 : m_cbData / m_lastChildIndex   (not for sentinels)      *)
(*   unit index+3.. : name bytes, then data bytes                          *)
(* A unit is the tuple of its four bytes, least significant first.  Bytes  *)
(* of padding, which no operation reads, are modelled as 0.                *)
(***************************************************************************)
EXTENDS Integers, Sequences, FiniteSets, TLC

\* ------------------------------------------------------------------ bounds

\* The largest number of values a caller adds to one builder before clear().
MaxValues == 3

\* The largest number of splice_front / splice_back calls that move a node
\* of one builder before clear().
MaxSplices == 1

\* The largest number of values of the builder whose caller moves children
\* between arrays (SpecSplice), and the largest number of its arrays.
MaxSpliceValues == 6
MaxArrays == 2
MaxRawValues == 2

\* ------------------------------------------------------ program constants

StorageSize == 4
SizeofJsonValueBase == 8
SizeofJsonValue == 12
ByteRange == 256
NameMax == 16777215
JsonUInt == 246
JsonInt == 247
JsonBool == 249
JsonHidden == 253
JsonArray == 254
JsonObject == 255
ValNone == 0
ValTail == 1
ValHead == 2
ValReached == 3
SizeofPointer == 8
MinCapacity == 15
HalfRange == 65536
MaxSizeHigh == 65535
MaxSizeLow == 65534
DataMaxTopByte == 240

\* The names and the types that callers pass to push_back / push_front.
FarBehind == 40
MaxCallValues == 2
MaxScalarValues == 1
MaxRenderValues == 3
MaxGrowValues == 3
MaxTreeValues == 3
MaxAddress == 3
CallerNameSizes == { 1, 5, NameMax + 1 }
CallerPayloadSizes == { 1, 29 }
CallerPayloadAt == 64
TamperNames == { 0, 1, 5, 200 }
TamperTypes == { JsonBool, JsonHidden, JsonArray }
\* 0xf0000001, the least m_cbData above DataMax.
DataOverMax == << 1, 0, 0, DataMaxTopByte >>

NameSet == { <<>>, <<120>> }
TypeSet == { JsonBool, JsonArray }

\* ------------------------------------------------------------- node codec

\* DATA_OFFSET that rounds down.
DATA_OFFSETRoundsDown(cchName) == (cchName + SizeofJsonValue) \div StorageSize

DATA_OFFSET(cchName) ==
    (cchName + SizeofJsonValue + (StorageSize - 1)) \div StorageSize

IS_SPECIAL_TYPE(type) == JsonHidden <= type
IS_NORMAL_TYPE(type) == type < JsonHidden
IS_COMPOSITE_TYPE(type) == JsonArray <= type

\* m_storage.size()
Size(s) == Cardinality(DOMAIN s)

\* A 32-bit value as the four bytes of a unit, and back.
UnitOf(v) ==
    << v % ByteRange, (v \div ByteRange) % ByteRange,
       (v \div (ByteRange * ByteRange)) % ByteRange,
       v \div (ByteRange * ByteRange * ByteRange) >>

\* The value of a unit.  A value of 2^30 or more is read as 2^30: such a
\* value is only ever compared with an index or with the size of a buffer,
\* or rounded up to units and added to an index, and every buffer here is
\* far shorter than 2^28 units, so each comparison ends as with the exact
\* value.
Saturated == (ByteRange \div 4) * ByteRange * ByteRange * ByteRange

ValueOf(u) ==
    IF u[4] >= ByteRange \div 4 THEN Saturated
    ELSE u[1] + ByteRange * (u[2] + ByteRange * (u[3] + ByteRange * u[4]))

\* The fields of the JsonValue at unit `index` of arena s.
m_nextIndex(s, index) == ValueOf(s[index])
m_cchName(s, index) ==
    s[index + 1][1] + ByteRange * (s[index + 1][2] + ByteRange * s[index + 1][3])
m_type(s, index) == s[index + 1][4]
m_cbData(s, index) == ValueOf(s[index + 2])
m_lastChildIndex(s, index) == ValueOf(s[index + 2])

\* Unit 1 of a node: the bitfield m_cchName:24, m_type:8.
Bitfield(cchName, type) ==
    << cchName % ByteRange, (cchName \div ByteRange) % ByteRange,
       (cchName \div (ByteRange * ByteRange)) % ByteRange, type >>

\* Byte k (from 0) of the bytes stored from unit `pod` on.
ByteAt(s, pod, k) == s[pod + (k \div StorageSize)][(k % StorageSize) + 1]

\* The units that memcpy of `bytes` writes: unit p (from 0) holds bytes
\* 4p+1 .. 4p+4 of the sequence.
PodOfBytes(bytes, p) ==
    LET b(j) == IF StorageSize * p + j + 1 <= Len(bytes)
                THEN bytes[StorageSize * p + j + 1] ELSE 0
    IN << b(0), b(1), b(2), b(3) >>

\* JsonValue::Name(): m_cchName bytes that follow the JsonValue header.
Name(s, index) ==
    [k \in 1..m_cchName(s, index) |->
        ByteAt(s, index + SizeofJsonValue \div StorageSize, k - 1)]

\* JsonValue::Data(): m_cbData bytes at index + DATA_OFFSET(m_cchName).
Data(s, index) ==
    [k \in 1..m_cbData(s, index) |->
        ByteAt(s, index + DATA_OFFSET(m_cchName(s, index)), k - 1)]

\* ------------------------------------------------------------ tree engine

FirstChild(s, index) == index + DATA_OFFSET(m_cchName(s, index))

LastChild(s, index) == m_lastChildIndex(s, index)

\* CreateValue that sets m_lastChildIndex of an array or object to the node
\* itself and not to its sentinel.
CreateValueLastIsSelf(s, name, type, cbDataIn, data) ==
    LET composite == IS_COMPOSITE_TYPE(type)
        cbData == IF composite THEN SizeofJsonValueBase ELSE cbDataIn
        cchName == Len(name)
        valueIndex == Size(s)
        dataIndex == valueIndex + DATA_OFFSET(cchName)
        newStorageSize ==
            dataIndex + (cbData + StorageSize - 1) \div StorageSize
        nameIndex == valueIndex + SizeofJsonValue \div StorageSize
        rootNext == IF valueIndex = 0 THEN 0 ELSE m_nextIndex(s, 0)
    IN [i \in 0..(newStorageSize - 1) |->
          IF i = 0 /\ composite THEN UnitOf(dataIndex)
          ELSE IF i < valueIndex THEN s[i]
          ELSE IF i = valueIndex THEN UnitOf(0)
          ELSE IF i = valueIndex + 1 THEN Bitfield(cchName, type)
          ELSE IF i = valueIndex + 2
               THEN UnitOf(IF composite THEN valueIndex ELSE cbData)
          ELSE IF i < dataIndex THEN PodOfBytes(name, i - nameIndex)
          ELSE IF ~composite THEN PodOfBytes(data, i - dataIndex)
          ELSE IF i = dataIndex THEN UnitOf(rootNext)
          ELSE Bitfield(0, JsonHidden)]

\* CreateValue that leaves the type of the sentinel of an array or object
\* at that of a simple value.
CreateValueOpenSentinel(s, name, type, cbDataIn, data) ==
    LET composite == IS_COMPOSITE_TYPE(type)
        cbData == IF composite THEN SizeofJsonValueBase ELSE cbDataIn
        cchName == Len(name)
        valueIndex == Size(s)
        dataIndex == valueIndex + DATA_OFFSET(cchName)
        newStorageSize ==
            dataIndex + (cbData + StorageSize - 1) \div StorageSize
        nameIndex == valueIndex + SizeofJsonValue \div StorageSize
        rootNext == IF valueIndex = 0 THEN 0 ELSE m_nextIndex(s, 0)
    IN [i \in 0..(newStorageSize - 1) |->
          IF i = 0 /\ composite THEN UnitOf(dataIndex)
          ELSE IF i < valueIndex THEN s[i]
          ELSE IF i = valueIndex THEN UnitOf(0)
          ELSE IF i = valueIndex + 1 THEN Bitfield(cchName, type)
          ELSE IF i = valueIndex + 2
               THEN UnitOf(IF composite THEN dataIndex ELSE cbData)
          ELSE IF i < dataIndex THEN PodOfBytes(name, i - nameIndex)
          ELSE IF ~composite THEN PodOfBytes(data, i - dataIndex)
          ELSE IF i = dataIndex THEN UnitOf(rootNext)
          ELSE Bitfield(0, JsonBool)]

\* Adds an unlinked node to the arena; the result is the new arena, the new
\* node is at index Size(s).  A composite gets its sentinel, which is linked
\* right after the root.
CreateValue(s, name, type, cbDataIn, data) ==
    LET composite == IS_COMPOSITE_TYPE(type)
        cbData == IF composite THEN SizeofJsonValueBase ELSE cbDataIn
        cchName == Len(name)
        valueIndex == Size(s)
        dataIndex == valueIndex + DATA_OFFSET(cchName)
        newStorageSize ==
            dataIndex + (cbData + StorageSize - 1) \div StorageSize
        nameIndex == valueIndex + SizeofJsonValue \div StorageSize
        rootNext == IF valueIndex = 0 THEN 0 ELSE m_nextIndex(s, 0)
    IN [i \in 0..(newStorageSize - 1) |->
          IF i = 0 /\ composite THEN UnitOf(dataIndex)
          ELSE IF i < valueIndex THEN s[i]
          ELSE IF i = valueIndex THEN UnitOf(0)
          ELSE IF i = valueIndex + 1 THEN Bitfield(cchName, type)
          ELSE IF i = valueIndex + 2
               THEN UnitOf(IF composite THEN dataIndex ELSE cbData)
          ELSE IF i < dataIndex THEN PodOfBytes(name, i - nameIndex)
          ELSE IF ~composite THEN PodOfBytes(data, i - dataIndex)
          ELSE IF i = dataIndex THEN UnitOf(rootNext)
          ELSE Bitfield(0, JsonHidden)]

\* EnsureRootExists that creates a root object whether or not there is one.
EnsureRootExistsAgain(s) == CreateValue(s, <<>>, JsonObject, 0, <<>>)

\* If the root object does not exist, create it.
EnsureRootExists(s) ==
    IF Size(s) = 0 THEN CreateValue(s, <<>>, JsonObject, 0, <<>>) ELSE s


\* NextIndex without the loop that skips hidden nodes.
NextIndexNoSkip(s, index) == m_nextIndex(s, index)

\* Given an index, the next non-hidden index.  `fuel` bounds the walk by the
\* number of units of the arena; a walk that would not end yields Size(s),
\* which is no index of the arena.
RECURSIVE NextIndexLoop(_, _, _)
NextIndexLoop(s, index, fuel) ==
    LET next == m_nextIndex(s, index)
    IN IF m_type(s, next) # JsonHidden THEN next
       ELSE IF fuel = 0 THEN Size(s)
       ELSE NextIndexLoop(s, next, fuel - 1)

NextIndex(s, index) == NextIndexLoop(s, index, Size(s))

\* False if empty() or if the iterator is not a parent.
CanIterateOver(s, index) ==
    Size(s) # 0 /\ IS_COMPOSITE_TYPE(m_type(s, index))

RECURSIVE cbeginLoop(_, _, _)
cbeginLoop(s, index, fuel) ==
    IF m_type(s, index) # JsonHidden THEN index
    ELSE IF fuel = 0 THEN Size(s)
    ELSE cbeginLoop(s, m_nextIndex(s, index), fuel - 1)

\* begin() without the loop that skips hidden nodes.
cbeginNoSkip(s) == IF Size(s) # 0 THEN m_nextIndex(s, 0) ELSE 0

\* begin() as begin(root()): the first non-hidden node after the sentinel of
\* the root.
cbeginAtRootSentinel(s) == IF Size(s) # 0 THEN NextIndex(s, FirstChild(s, 0)) ELSE 0

\* begin(): the first non-hidden node after the root.
cbegin(s) ==
    IF Size(s) # 0 THEN cbeginLoop(s, m_nextIndex(s, 0), Size(s)) ELSE 0

\* end(), root()
cend == 0

\* begin(itParent)
cbeginOf(s, itParent) ==
    IF CanIterateOver(s, itParent)
    THEN NextIndex(s, FirstChild(s, itParent)) ELSE 0

\* end(itParent)
cendOf(s, itParent) ==
    IF CanIterateOver(s, itParent)
    THEN NextIndex(s, LastChild(s, itParent)) ELSE 0

\* countLoop without the test for hidden nodes.
RECURSIVE countLoopAll(_, _, _, _, _)
countLoopAll(s, index, lastIndex, result, fuel) ==
    IF index = lastIndex \/ fuel = 0 THEN result + 1
    ELSE countLoopAll(s, m_nextIndex(s, index), lastIndex, result + 1, fuel - 1)

RECURSIVE countLoop(_, _, _, _, _)
countLoop(s, index, lastIndex, result, fuel) ==
    LET r == IF m_type(s, index) # JsonHidden THEN result + 1 ELSE result
    IN IF index = lastIndex \/ fuel = 0 THEN r
       ELSE countLoop(s, m_nextIndex(s, index), lastIndex, r, fuel - 1)

count(s, itParent) ==
    IF CanIterateOver(s, itParent)
    THEN LET index == FirstChild(s, itParent)
             lastIndex == LastChild(s, itParent)
         IN IF index # lastIndex
            THEN countLoop(s, m_nextIndex(s, index), lastIndex, 0, Size(s))
            ELSE 0
    ELSE 0

\* FindImplLoop without the test for hidden nodes.
RECURSIVE FindImplLoopAll(_, _, _, _, _)
FindImplLoopAll(s, index, lastIndex, name, fuel) ==
    IF Name(s, index) = name THEN index
    ELSE IF index = lastIndex \/ fuel = 0 THEN 0
    ELSE FindImplLoopAll(s, m_nextIndex(s, index), lastIndex, name, fuel - 1)

RECURSIVE FindImplLoop(_, _, _, _, _)
FindImplLoop(s, index, lastIndex, name, fuel) ==
    IF m_type(s, index) # JsonHidden /\ Name(s, index) = name THEN index
    ELSE IF index = lastIndex \/ fuel = 0 THEN 0
    ELSE FindImplLoop(s, m_nextIndex(s, index), lastIndex, name, fuel - 1)

FindImpl(s, parentIndex, name) ==
    IF Size(s) # 0 /\ IS_COMPOSITE_TYPE(m_type(s, parentIndex))
    THEN LET index == FirstChild(s, parentIndex)
             lastIndex == LastChild(s, parentIndex)
         IN IF index # lastIndex
            THEN FindImplLoop(s, m_nextIndex(s, index), lastIndex, name, Size(s))
            ELSE 0
    ELSE 0

\* Find that goes on from end() when a name of the path has no match.
RECURSIVE FindThroughEnd(_, _, _)
FindThroughEnd(s, parentIndex, names) ==
    IF names = <<>> THEN parentIndex
    ELSE FindThroughEnd(s, FindImpl(s, parentIndex, Head(names)), Tail(names))

\* Find(parentIndex, firstName, additionalNames...)
RECURSIVE Find(_, _, _)
Find(s, parentIndex, names) ==
    IF names = <<>> THEN parentIndex
    ELSE LET childIndex == FindImpl(s, parentIndex, Head(names))
         IN IF childIndex # 0 THEN Find(s, childIndex, Tail(names))
            ELSE childIndex

\* --------------------------------------------------- mutating operations

\* SetType that writes the whole bit-field unit, name length included.
SetTypeClearsName(s, index, type) ==
    [s EXCEPT ![index + 1] = Bitfield(0, type)]

\* value.m_type = type
SetType(s, index, type) ==
    [s EXCEPT ![index + 1] = Bitfield(m_cchName(s, index), type)]

\* LinkValue without the update of m_lastChildIndex that an insert at the
\* front of a parent without children needs.
LinkValueKeepsLast(s, front, parentIndex, newIndex) ==
    LET prevIndex == IF front THEN FirstChild(s, parentIndex)
                     ELSE m_lastChildIndex(s, parentIndex)
        s1 == IF ~front
              THEN [s EXCEPT ![parentIndex + 2] = UnitOf(newIndex)]
              ELSE s
        s2 == [s1 EXCEPT ![newIndex] = UnitOf(m_nextIndex(s1, prevIndex))]
    IN [s2 EXCEPT ![prevIndex] = UnitOf(newIndex)]

\* LinkValue that puts a node for the front behind the sentinel of the root,
\* whatever its parent.
LinkValueFrontOfRoot(s, front, parentIndex, newIndex) ==
    LET prevIndex == IF front THEN FirstChild(s, 0)
                     ELSE m_lastChildIndex(s, parentIndex)
        s1 == IF ~front \/ prevIndex = m_lastChildIndex(s, parentIndex)
              THEN [s EXCEPT ![parentIndex + 2] = UnitOf(newIndex)]
              ELSE s
        s2 == [s1 EXCEPT ![newIndex] = UnitOf(m_nextIndex(s1, prevIndex))]
    IN [s2 EXCEPT ![prevIndex] = UnitOf(newIndex)]

\* LinkValue that ends the list at the new node.
LinkValueEndsList(s, front, parentIndex, newIndex) ==
    LET prevIndex == IF front THEN FirstChild(s, parentIndex)
                     ELSE m_lastChildIndex(s, parentIndex)
        s1 == IF ~front \/ prevIndex = m_lastChildIndex(s, parentIndex)
              THEN [s EXCEPT ![parentIndex + 2] = UnitOf(newIndex)]
              ELSE s
        s2 == [s1 EXCEPT ![newIndex] = UnitOf(0)]
    IN [s2 EXCEPT ![prevIndex] = UnitOf(newIndex)]

\* The linking half of AddValue: the node newIndex (just created, unlinked) is
\* put after the sentinel (front) or after the last child (back) of the parent.
LinkValue(s, front, parentIndex, newIndex) ==
    LET prevIndex == IF front THEN FirstChild(s, parentIndex)
                     ELSE m_lastChildIndex(s, parentIndex)
        s1 == IF ~front \/ prevIndex = m_lastChildIndex(s, parentIndex)
              THEN [s EXCEPT ![parentIndex + 2] = UnitOf(newIndex)]
              ELSE s
        s2 == [s1 EXCEPT ![newIndex] = UnitOf(m_nextIndex(s1, prevIndex))]
    IN [s2 EXCEPT ![prevIndex] = UnitOf(newIndex)]

\* The arena after AddValue(front, itParent, name, type, cbData, pbData); the
\* new node is at index Size(EnsureRootExists(s)).
AddValueStorage(s, front, itParent, name, type, cbData, data) ==
    LET s0 == EnsureRootExists(s)
        newIndex == Size(s0)
        s1 == CreateValue(s0, name, type, cbData, data)
    IN LinkValue(s1, front, itParent, newIndex)

\* An erase that also takes the node's link away.
eraseStorageClearsLink(s, itValue) ==
    [s EXCEPT ![itValue] = UnitOf(0),
              ![itValue + 1] = Bitfield(m_cchName(s, itValue), JsonHidden)]

\* An erase that gives an erased node the type of a boolean.
eraseStorageToggles(s, itValue) == SetType(s, itValue, IF m_type(s, itValue) = JsonHidden THEN JsonBool ELSE JsonHidden)

\* erase(itValue): the arena afterwards.
eraseStorage(s, itValue) == SetType(s, itValue, JsonHidden)

\* erase(itBegin, itEnd): the indices the loop visits before it meets itEnd.
\* The loop terminates the program when it meets index 0 first.
RECURSIVE eraseRangeVisits(_, _, _, _)
eraseRangeVisits(s, index, itEnd, fuel) ==
    IF index = itEnd \/ index = 0 \/ fuel = 0 THEN <<>>
    ELSE <<index>> \o eraseRangeVisits(s, m_nextIndex(s, index), itEnd, fuel - 1)

RECURSIVE eraseRangeReaches(_, _, _, _)
eraseRangeReaches(s, index, itEnd, fuel) ==
    IF index = itEnd THEN TRUE
    ELSE IF index = 0 \/ fuel = 0 THEN FALSE
    ELSE eraseRangeReaches(s, m_nextIndex(s, index), itEnd, fuel - 1)

RECURSIVE eraseRangeLoop(_, _, _, _)
eraseRangeLoop(s, index, itEnd, fuel) ==
    IF index = itEnd \/ index = 0 \/ fuel = 0 THEN s
    ELSE eraseRangeLoop(SetType(s, index, JsonHidden),
                        m_nextIndex(s, index), itEnd, fuel - 1)

\* Splice keeps a pointer pTailIndex, to headIndex at first and then to the
\* m_nextIndex of the tail of the list of moved items.  HeadPtr stands for
\* &headIndex; any other value is the index of the node whose m_nextIndex the
\* pointer designates.
HeadPtr == -1

\* SpliceLoop without the update of the old parent's m_lastChildIndex when
\* its last child is moved.
RECURSIVE SpliceLoopKeepsLast(_, _, _, _, _, _, _, _)
SpliceLoopKeepsLast(s, oldParent, lastIndex, sel, prevIndex, headIndex, pTailIndex, fuel) ==
    LET currentIndex == m_nextIndex(s, prevIndex)
    IN IF fuel = 0
       THEN [s |-> s, prevIndex |-> prevIndex, headIndex |-> headIndex,
             pTailIndex |-> pTailIndex]
       ELSE IF m_type(s, currentIndex) # JsonHidden /\ currentIndex \in sel
       THEN LET s1 == [s EXCEPT ![prevIndex] =
                               UnitOf(m_nextIndex(s, currentIndex))]
                head1 == IF pTailIndex = HeadPtr THEN currentIndex
                         ELSE headIndex
                s2 == IF pTailIndex = HeadPtr THEN s1
                      ELSE [s1 EXCEPT ![pTailIndex] = UnitOf(currentIndex)]
                s3 == [s2 EXCEPT ![currentIndex] = UnitOf(currentIndex)]
            IN IF currentIndex = lastIndex
               THEN [s |-> s3, prevIndex |-> prevIndex, headIndex |-> head1,
                     pTailIndex |-> currentIndex]
               ELSE SpliceLoopKeepsLast(s3, oldParent, lastIndex, sel,
                                        prevIndex, head1, currentIndex, fuel - 1)
       ELSE IF currentIndex = lastIndex
            THEN [s |-> s, prevIndex |-> prevIndex, headIndex |-> headIndex,
                  pTailIndex |-> pTailIndex]
            ELSE SpliceLoopKeepsLast(s, oldParent, lastIndex, sel, currentIndex,
                                     headIndex, pTailIndex, fuel - 1)

\* The first loop of Splice: unlinks the selected visible children of the old
\* parent and chains them from headIndex.
RECURSIVE SpliceLoop(_, _, _, _, _, _, _, _)
SpliceLoop(s, oldParent, lastIndex, sel, prevIndex, headIndex, pTailIndex, fuel) ==
    LET currentIndex == m_nextIndex(s, prevIndex)
    IN IF fuel = 0
       THEN [s |-> s, prevIndex |-> prevIndex, headIndex |-> headIndex,
             pTailIndex |-> pTailIndex]
       ELSE IF m_type(s, currentIndex) # JsonHidden /\ currentIndex \in sel
       THEN LET s1 == [s EXCEPT ![prevIndex] =
                               UnitOf(m_nextIndex(s, currentIndex))]
                head1 == IF pTailIndex = HeadPtr THEN currentIndex
                         ELSE headIndex
                s2 == IF pTailIndex = HeadPtr THEN s1
                      ELSE [s1 EXCEPT ![pTailIndex] = UnitOf(currentIndex)]
                s3 == [s2 EXCEPT ![currentIndex] = UnitOf(currentIndex)]
            IN IF currentIndex = lastIndex
               THEN [s |-> [s3 EXCEPT ![oldParent + 2] = UnitOf(prevIndex)],
                     prevIndex |-> prevIndex, headIndex |-> head1,
                     pTailIndex |-> currentIndex]
               ELSE SpliceLoop(s3, oldParent, lastIndex, sel, prevIndex,
                               head1, currentIndex, fuel - 1)
       ELSE IF currentIndex = lastIndex
            THEN [s |-> s, prevIndex |-> prevIndex, headIndex |-> headIndex,
                  pTailIndex |-> pTailIndex]
            ELSE SpliceLoop(s, oldParent, lastIndex, sel, currentIndex,
                            headIndex, pTailIndex, fuel - 1)

\* SpliceInsert without the link from the tail of the moved items to the
\* node that followed the place of insertion.
SpliceInsertOpenTail(s, front, itNewParent, headIndex, pTailIndex) ==
    LET tail == m_nextIndex(s, pTailIndex)
        prevIndex == IF front THEN FirstChild(s, itNewParent)
                     ELSE m_lastChildIndex(s, itNewParent)
        s1 == IF ~front \/ prevIndex = m_lastChildIndex(s, itNewParent)
              THEN [s EXCEPT ![itNewParent + 2] = UnitOf(tail)]
              ELSE s
    IN [s1 EXCEPT ![prevIndex] = UnitOf(headIndex)]

\* SpliceInsert that leaves the m_lastChildIndex of the new parent as it
\* was.
SpliceInsertKeepsLast(s, front, itNewParent, headIndex, pTailIndex) ==
    LET prevIndex == IF front THEN FirstChild(s, itNewParent)
                     ELSE m_lastChildIndex(s, itNewParent)
        s2 == [s EXCEPT ![pTailIndex] = UnitOf(m_nextIndex(s, prevIndex))]
    IN [s2 EXCEPT ![prevIndex] = UnitOf(headIndex)]

\* The second half of Splice: links the moved items after the sentinel
\* (front) or after the last child (back) of the new parent.
SpliceInsert(s, front, itNewParent, headIndex, pTailIndex) ==
    LET tail == m_nextIndex(s, pTailIndex)
        prevIndex == IF front THEN FirstChild(s, itNewParent)
                     ELSE m_lastChildIndex(s, itNewParent)
        s1 == IF ~front \/ prevIndex = m_lastChildIndex(s, itNewParent)
              THEN [s EXCEPT ![itNewParent + 2] = UnitOf(tail)]
              ELSE s
        s2 == [s1 EXCEPT ![pTailIndex] = UnitOf(m_nextIndex(s1, prevIndex))]
    IN [s2 EXCEPT ![prevIndex] = UnitOf(headIndex)]

\* Splice that links the list of moved items into the new parent even when
\* the list is empty.
SpliceStorageAlwaysInserts(s, front, itOldParent, itNewParent, sel) ==
    IF CanIterateOver(s, itOldParent)
    THEN LET prevIndex == FirstChild(s, itOldParent)
             lastIndex == m_lastChildIndex(s, itOldParent)
         IN IF prevIndex # lastIndex
            THEN LET r == SpliceLoop(s, itOldParent, lastIndex, sel,
                                     prevIndex, 0, HeadPtr, Size(s))
                 IN SpliceInsert(r.s, front, itNewParent,
                                 r.headIndex, IF r.headIndex # 0 THEN r.pTailIndex ELSE 0)
            ELSE s
    ELSE s

\* Splice(front, itOldParent, itNewParent, pred): the arena afterwards.  The
\* predicate is the set sel of the children it accepts.
SpliceStorage(s, front, itOldParent, itNewParent, sel) ==
    IF CanIterateOver(s, itOldParent)
    THEN LET prevIndex == FirstChild(s, itOldParent)
             lastIndex == m_lastChildIndex(s, itOldParent)
         IN IF prevIndex # lastIndex
            THEN LET r == SpliceLoop(s, itOldParent, lastIndex, sel,
                                     prevIndex, 0, HeadPtr, Size(s))
                 IN IF r.headIndex # 0
                    THEN SpliceInsert(r.s, front, itNewParent,
                                      r.headIndex, r.pTailIndex)
                    ELSE r.s
            ELSE s
    ELSE s

\* -------------------------------------------------------------- validator

\* The state of a run of the validator:
\*   map  - m_pMap, one ValidationState per unit of the buffer;
\*   ok   - FALSE once "JsonBuilder - corrupt data" has been thrown;
\*   oob  - TRUE once the run has read a unit at an index that is not below
\*          the size of the buffer (what it reads there is not defined, and
\*          the run is followed no further);
\*   unchecked - TRUE once the run has read a unit that no call of UpdateMap
\*          has marked;
\*   fuel - the turns of the loops over nodes that the run may still take;
\*   spin - TRUE once the run has asked for a turn with no fuel left.
Fail(m) == [m EXCEPT !.ok = FALSE]
Spin(m) == [m EXCEPT !.ok = FALSE, !.spin = TRUE]
Tick(m) == [m EXCEPT !.fuel = m.fuel - 1]

\* The run reads the unit at `index` of the buffer.
Deref(s, m, index) ==
    IF index \notin DOMAIN s THEN [m EXCEPT !.ok = FALSE, !.oob = TRUE]
    ELSE IF m.map[index] = ValNone THEN [m EXCEPT !.unchecked = TRUE]
    ELSE m

\* UpdateMap without the test m_size <= index.
UpdateMapNoBound(m, size, index, expectedVal, newVal) ==
    IF ~m.ok \/ index \notin DOMAIN m.map THEN m
    ELSE IF m.map[index] # expectedVal THEN Fail(m)
    ELSE [m EXCEPT !.map[index] = newVal]

\* UpdateMap without the test of the expected state.
UpdateMapNoExpect(m, size, index, expectedVal, newVal) ==
    IF ~m.ok THEN m
    ELSE IF size <= index THEN Fail(m)
    ELSE [m EXCEPT !.map[index] = newVal]

UpdateMap(m, size, index, expectedVal, newVal) ==
    IF ~m.ok THEN m
    ELSE IF size <= index \/ m.map[index] # expectedVal THEN Fail(m)
    ELSE [m EXCEPT !.map[index] = newVal]

\* A validator that marks no tail.
MarkTailNone(m, size, from, to) == m

\* for (i = from; i != to; i++) UpdateMap(i, ValNone, ValTail)
RECURSIVE MarkTail(_, _, _, _)
MarkTail(m, size, from, to) ==
    IF from >= to \/ ~m.ok THEN m
    ELSE MarkTail(UpdateMap(m, size, from, ValNone, ValTail), size, from + 1, to)

\* pValue->m_cbData > DataMax, on the bytes of the unit (DataMax is
\* 0xf0000000).
DataTooLarge(u) ==
    u[4] > DataMaxTopByte \/ (u[4] = DataMaxTopByte /\ u[1] + u[2] + u[3] > 0)

\* ValidateNode without the test of m_cbData against DataMax: a size above
\* DataMax counts as the largest size that is allowed.
ValidateNodeAnySize(s, m, index) ==
    LET size == Size(s)
        baseEnd == SizeofJsonValueBase \div StorageSize
        m1 == MarkTail(UpdateMap(m, size, index, ValNone, ValHead),
                       size, index + 1, index + baseEnd)
    IN IF ~m1.ok \/ m_type(s, index) = JsonHidden THEN m1
       ELSE LET nameEnd == DATA_OFFSET(m_cchName(s, index))
                m2 == MarkTail(m1, size, index + baseEnd, index + nameEnd)
            IN IF ~m2.ok \/ ~IS_NORMAL_TYPE(m_type(s, index)) THEN m2
               ELSE IF DataTooLarge(s[index + 2]) THEN m2
               ELSE LET dataEnd == nameEnd +
                            (m_cbData(s, index) + StorageSize - 1) \div StorageSize
                    IN MarkTail(m2, size, index + nameEnd, index + dataEnd)

\* One turn of the first loop of Validate: the node at `index` is marked.
ValidateNode(s, m, index) ==
    LET size == Size(s)
        baseEnd == SizeofJsonValueBase \div StorageSize
        m1 == MarkTail(UpdateMap(m, size, index, ValNone, ValHead),
                       size, index + 1, index + baseEnd)
        m1r == Deref(s, m1, index + 1)
    IN IF ~m1.ok THEN m1
       ELSE IF m1r.oob \/ m_type(s, index) = JsonHidden THEN m1r
       ELSE LET nameEnd == DATA_OFFSET(m_cchName(s, index))
                m2 == MarkTail(m1r, size, index + baseEnd, index + nameEnd)
                m2r == Deref(s, m2, index + 2)
            IN IF ~m2.ok \/ ~IS_NORMAL_TYPE(m_type(s, index)) THEN m2
               ELSE IF m2r.oob THEN m2r
               ELSE IF DataTooLarge(s[index + 2]) THEN Fail(m2r)
               ELSE LET dataEnd == nameEnd +
                            (m_cbData(s, index) + StorageSize - 1) \div StorageSize
                    IN MarkTail(m2r, size, index + nameEnd, index + dataEnd)

\* The first loop of Validate: follows m_nextIndex from the root until it
\* is back at index 0.
RECURSIVE ValidateList(_, _, _)
ValidateList(s, m, index) ==
    IF m.fuel = 0 THEN Spin(m)
    ELSE LET m1 == ValidateNode(s, Tick(m), index)
             m1r == Deref(s, m1, index)
         IN IF ~m1.ok THEN m1
            ELSE IF m1r.oob \/ m_nextIndex(s, index) = 0 THEN m1r
            ELSE ValidateList(s, m1r, m_nextIndex(s, index))

RECURSIVE ValidateRecurse(_, _, _)
RECURSIVE ValidateChildren(_, _, _, _)

\* The loop of ValidateRecurse without the descent into a child that is an
\* array or an object.
RECURSIVE ValidateChildrenOneLevel(_, _, _, _)
ValidateChildrenOneLevel(s, m, parent, child) ==
    LET mp == Deref(s, m, parent + 2)
        mc == Deref(s, mp, child)
    IN IF ~m.ok THEN m
       ELSE IF mp.oob \/ child = m_lastChildIndex(s, parent) THEN mp
       ELSE IF m.fuel = 0 THEN Spin(mp)
       ELSE IF mc.oob THEN mc
       ELSE LET next == m_nextIndex(s, child)
                m1 == UpdateMap(Tick(mc), Size(s), next, ValHead, ValReached)
                m1r == Deref(s, m1, next + 1)
            IN IF ~m1.ok THEN m1
               ELSE IF m1r.oob THEN m1r
               ELSE ValidateChildrenOneLevel(s, m1r, parent, next)

\* while (child != pParent->m_lastChildIndex) of ValidateRecurse
ValidateChildren(s, m, parent, child) ==
    LET mp == Deref(s, m, parent + 2)
        mc == Deref(s, mp, child)
    IN IF ~m.ok THEN m
       ELSE IF mp.oob \/ child = m_lastChildIndex(s, parent) THEN mp
       ELSE IF m.fuel = 0 THEN Spin(mp)
       ELSE IF mc.oob THEN mc
       ELSE LET next == m_nextIndex(s, child)
                m1 == UpdateMap(Tick(mc), Size(s), next, ValHead, ValReached)
                m1r == Deref(s, m1, next + 1)
            IN IF ~m1.ok THEN m1
               ELSE IF m1r.oob THEN m1r
               ELSE IF IS_COMPOSITE_TYPE(m_type(s, next))
               THEN ValidateChildren(s, ValidateRecurse(s, m1r, next), parent, next)
               ELSE ValidateChildren(s, m1r, parent, next)

\* ValidateRecurse that takes the first child as it is declared.
ValidateRecurseAnyFirst(s, m, parent) ==
    ValidateChildren(s, m, parent, parent + DATA_OFFSET(m_cchName(s, parent)))

ValidateRecurse(s, m, parent) ==
    LET mp == Deref(s, m, parent + 1)
        child == parent + DATA_OFFSET(m_cchName(s, parent))
        m1 == UpdateMap(mp, Size(s), child, ValHead, ValReached)
        m1r == Deref(s, m1, child + 1)
    IN IF mp.oob THEN mp
       ELSE IF ~m1.ok THEN m1
       ELSE IF m1r.oob THEN m1r
       ELSE IF m_type(s, child) # JsonHidden THEN Fail(m1r)
       ELSE ValidateChildren(s, m1r, parent, child)

\* The run of Validator::Validate() on a buffer that is not empty.
ValidateRun(s) ==
    LET m0 == [ok |-> TRUE, map |-> [i \in DOMAIN s |-> ValNone],
               oob |-> FALSE, unchecked |-> FALSE,
               fuel |-> 2 * Size(s) + 2, spin |-> FALSE]
        m1 == ValidateList(s, m0, 0)
        m2 == UpdateMap(m1, Size(s), 0, ValHead, ValReached)
        m2r == Deref(s, m2, 1)
    IN IF ~m2.ok THEN m2
       ELSE IF m2r.oob THEN m2r
       ELSE IF m_cchName(s, 0) # 0 \/ m_type(s, 0) # JsonObject THEN Fail(m2r)
       ELSE ValidateRecurse(s, m2r, 0)

\* Validate that takes any node at index 0 for the root.
ValidateAnyRoot(s) ==
    LET m0 == [ok |-> TRUE, map |-> [i \in DOMAIN s |-> ValNone],
               oob |-> FALSE, unchecked |-> FALSE,
               fuel |-> 2 * Size(s) + 2, spin |-> FALSE]
        m1 == ValidateList(s, m0, 0)
        m2 == UpdateMap(m1, Size(s), 0, ValHead, ValReached)
    IN IF ~m2.ok THEN FALSE
       ELSE IF ~IS_COMPOSITE_TYPE(m_type(s, 0)) THEN TRUE
       ELSE ValidateRecurse(s, m2, 0).ok

\* Validator::Validate(): TRUE when it returns, FALSE when it throws.
Validate(s) == ValidateRun(s).ok

\* ValidateData(): an empty builder is not validated.
ValidateData(s) == IF Size(s) # 0 THEN Validate(s) ELSE TRUE

\* ------------------------------------------------------- raw data in, out

\* buffer_size() without the factor sizeof(StoragePod).
buffer_sizeInUnits(s) == Size(s)

\* buffer_size(): the size of the arena in bytes.
buffer_size(s) == Size(s) * StorageSize

\* buffer_data(): the bytes of the arena, byte k (from 0) of the memory.
buffer_data(s) ==
    [k \in 0..(buffer_size(s) - 1) |->
        s[k \div StorageSize][(k % StorageSize) + 1]]

\* PodVector(data, size): `size` units copied from the bytes at `data`.
PodVectorOf(data, size) ==
    [i \in 0..(size - 1) |->
        << data[StorageSize * i], data[StorageSize * i + 1],
           data[StorageSize * i + 2], data[StorageSize * i + 3] >>]

\* cbRawData / StorageSize > StorageVec::max_size(), where max_size() is
\* 0xfffffffe: compared on the 16-bit halves of the quotient.
ExceedsMaxSize(cItems) ==
    \/ cItems \div HalfRange > MaxSizeHigh
    \/ cItems \div HalfRange = MaxSizeHigh /\ cItems % HalfRange > MaxSizeLow

\* JsonBuilder(pbRawData, cbRawData, validateData): ok is FALSE when the
\* constructor throws; m_storage is the arena of the new builder.
JsonBuilderRaw(pbRawData, cbRawData, validateData) ==
    LET storage == PodVectorOf(pbRawData, cbRawData \div StorageSize)
    IN [ ok |-> /\ cbRawData % StorageSize = 0
                /\ ~ExceedsMaxSize(cbRawData \div StorageSize)
                /\ (validateData => ValidateData(storage)),
         m_storage |-> storage ]

\* ------------------------------------------------------------------ state

VARIABLES
    m_storage,  \* the arena: unit index |-> value of the unit
    issued,     \* the indexes of the iterators push_back/push_front returned
    given,      \* issued index |-> the arguments of the call that made it
    reference,  \* parent |-> the reference sequence of its children
    erased,     \* the issued indexes that an erase has acted on
    splices,    \* the number of splice calls that moved a node
    pbRawData,  \* the bytes a caller holds to construct a builder from
    m_capacity, \* the units the allocation of the arena has room for
    m_data,     \* the address of the allocation of the arena (0: nullptr)
    staged,     \* what NewValueInit has left behind the end of the arena
    thrown,     \* what the last step of an insert has thrown
    stale       \* the indexes of the iterators a caller holds from before a clear()

vectorVars == <<m_capacity, m_data, staged, thrown, stale>>

vars == <<m_storage, issued, given, reference, erased, splices, pbRawData,
          vectorVars>>

\* The iterators a caller can hold: end()/root() and what the inserts returned.
\* An iterator stays in range after its node is erased.
Iterators == {0} \cup issued

EmptyStorage == [i \in {} |-> UnitOf(0)]

NoBytes == [k \in {} |-> 0]

\* No insert is under way.
NoStage == [parent |-> -1]

\* What a caller sees of the children of itParent: begin(itParent), then ++
\* until end(itParent).  An iteration that passes end() or does not end is
\* closed by Size(s), which is no index.
RECURSIVE IterateFrom(_, _, _, _)
IterateFrom(s, it, itEnd, fuel) ==
    IF it = itEnd THEN <<>>
    ELSE IF it = 0 \/ it >= Size(s) \/ fuel = 0 THEN <<Size(s)>>
    ELSE <<it>> \o IterateFrom(s, NextIndex(s, it), itEnd, fuel - 1)

IterateChildren(s, itParent) ==
    IterateFrom(s, cbeginOf(s, itParent), cendOf(s, itParent), Size(s))

SeqToSet(q) == { q[k] : k \in 1..Len(q) }

Init ==
    /\ m_storage = EmptyStorage
    /\ issued = {}
    /\ given = [n \in {} |-> 0]
    /\ reference = [p \in {0} |-> <<>>]
    /\ erased = {}
    /\ splices = 0
    /\ pbRawData = NoBytes
    /\ m_capacity = 0
    /\ m_data = 0
    /\ staged = NoStage
    /\ thrown = "none"
    /\ stale = {}

\* push_back / push_front.  A parent that is no array or object terminates
\* the program (ValidateParentIterator).
AddValue(front, itParent, name, type, cbData, data) ==
    /\ itParent \in Iterators
    /\ Len(name) <= NameMax
    /\ LET s0 == EnsureRootExists(m_storage)
           newIndex == Size(s0)
       IN /\ IS_COMPOSITE_TYPE(m_type(s0, itParent))
          /\ m_storage' = AddValueStorage(m_storage, front, itParent, name,
                                          type, cbData, data)
          /\ issued' = issued \cup {newIndex}
          /\ given' = [n \in issued \cup {newIndex} |->
                         IF n = newIndex
                         THEN [parent |-> itParent, name |-> name,
                               type |-> type, data |-> data]
                         ELSE given[n]]
          /\ reference' = [p \in DOMAIN reference \cup {newIndex} |->
                             IF p = newIndex THEN <<>>
                             ELSE IF p = itParent
                                  THEN (IF front
                                        THEN <<newIndex>> \o reference[p]
                                        ELSE Append(reference[p], newIndex))
                                  ELSE reference[p]]
          /\ UNCHANGED <<erased, splices, pbRawData, vectorVars>>

\* erase(itValue).  Erasing end() terminates the program.
erase(itValue) ==
    /\ itValue \in Iterators
    /\ itValue # 0
    /\ m_storage' = eraseStorage(m_storage, itValue)
    /\ erased' = erased \cup {itValue}
    /\ UNCHANGED <<issued, given, reference, splices, pbRawData, vectorVars>>

\* erase(itBegin, itEnd).  Meeting end() before itEnd terminates the program.
eraseRange(itBegin, itEnd) ==
    /\ itBegin \in Iterators
    /\ itEnd \in Iterators
    /\ eraseRangeReaches(m_storage, itBegin, itEnd, Size(m_storage))
    /\ m_storage' = eraseRangeLoop(m_storage, itBegin, itEnd, Size(m_storage))
    /\ erased' = erased \cup
          (issued \cap SeqToSet(eraseRangeVisits(m_storage, itBegin, itEnd,
                                                 Size(m_storage))))
    /\ UNCHANGED <<issued, given, reference, splices, pbRawData, vectorVars>>

\* The reference sequences after a splice: the selected children that are not
\* erased leave the old parent and enter the new one, in their order.
SpliceReference(front, itOldParent, itNewParent, sel) ==
    LET Moves(n) == n \in sel /\ n \notin erased
        Stays(n) == ~Moves(n)
        moved == SelectSeq(reference[itOldParent], Moves)
        r1 == [reference EXCEPT
                  ![itOldParent] = SelectSeq(reference[itOldParent], Stays)]
    IN IF moved = <<>> THEN reference
       ELSE [r1 EXCEPT ![itNewParent] =
                IF front THEN moved \o r1[itNewParent]
                ELSE r1[itNewParent] \o moved]

\* splice_front / splice_back.  When the old parent has children to offer, a
\* new parent that is no array or object terminates the program.
Splice(front, itOldParent, itNewParent, sel) ==
    /\ itOldParent \in Iterators
    /\ itNewParent \in Iterators
    /\ sel \subseteq SeqToSet(IterateChildren(m_storage, itOldParent))
    /\ CanIterateOver(m_storage, itOldParent)
          => IS_COMPOSITE_TYPE(m_type(m_storage, itNewParent))
    /\ m_storage' = SpliceStorage(m_storage, front, itOldParent, itNewParent, sel)
    /\ reference' = SpliceReference(front, itOldParent, itNewParent, sel)
    /\ splices' = IF m_storage' = m_storage THEN splices ELSE splices + 1
    /\ UNCHANGED <<issued, given, erased, pbRawData, vectorVars>>

\* clear(): m_size = 0.  Every iterator is invalidated.
clear ==
    /\ m_storage' = EmptyStorage
    /\ issued' = {}
    /\ given' = [n \in {} |-> 0]
    /\ reference' = [p \in {0} |-> <<>>]
    /\ erased' = {}
    /\ splices' = 0
    /\ UNCHANGED <<pbRawData, vectorVars>>

\* The data a caller passes with a value of the given type.
DataOf(type) == IF type = JsonBool THEN <<1>> ELSE <<>>

Next ==
    \/ /\ Cardinality(issued) < MaxValues
       /\ \E front \in BOOLEAN, itParent \in Iterators, name \in NameSet,
             type \in TypeSet :
             AddValue(front, itParent, name, type, Len(DataOf(type)),
                      DataOf(type))
    \/ \E itValue \in Iterators : erase(itValue)
    \/ \E itBegin \in Iterators, itEnd \in Iterators :
          eraseRange(itBegin, itEnd)
    \/ /\ splices < MaxSplices
       /\ \E front \in BOOLEAN, itOldParent \in Iterators,
             itNewParent \in Iterators :
             \E sel \in SUBSET SeqToSet(IterateChildren(m_storage, itOldParent)) :
                Splice(front, itOldParent, itNewParent, sel)
    \/ clear

Spec == Init /\ [][Next]_vars

\* The builder under a caller that puts arrays into the root, fills them at
\* the back, erases values and then moves children: values enough for an
\* array with four children next to another array.
Arrays == { n \in issued : given[n].type = JsonArray }

NextSplice ==
    \/ /\ Cardinality(issued) < MaxSpliceValues
       /\ splices = 0
       /\ \E itParent \in Iterators, type \in TypeSet :
             /\ type = JsonArray =>
                   itParent = 0 /\ Cardinality(Arrays) < MaxArrays
             /\ type # JsonArray => itParent # 0
             /\ AddValue(FALSE, itParent, <<120>>, type, Len(DataOf(type)),
                         DataOf(type))
    \/ /\ splices = 0
       /\ \E itValue \in issued \ (Arrays \cup erased) : erase(itValue)
    \/ /\ splices < MaxSplices
       /\ \E front \in BOOLEAN, itOldParent \in Iterators,
             itNewParent \in Iterators :
             \E sel \in SUBSET SeqToSet(IterateChildren(m_storage, itOldParent)) :
                Splice(front, itOldParent, itNewParent, sel)

SpecSplice == Init /\ [][NextSplice]_vars

\* The caller copies buffer_size() bytes from buffer_data().
Serialize ==
    /\ Size(m_storage) # 0
    /\ pbRawData = NoBytes
    /\ pbRawData' = buffer_data(m_storage)
    /\ UNCHANGED <<m_storage, issued, given, reference, erased, splices,
                 vectorVars>>

\* The bytes of one unit change before the caller hands them to
\* JsonBuilder(pbRawData, cbRawData, validateData).
Tamper(i, u) ==
    /\ StorageSize * i + StorageSize - 1 \in DOMAIN pbRawData
    /\ pbRawData' = [k \in DOMAIN pbRawData |->
                        IF k \div StorageSize = i
                        THEN u[(k % StorageSize) + 1] ELSE pbRawData[k]]
    /\ pbRawData' # pbRawData
    /\ UNCHANGED <<m_storage, issued, given, reference, erased, splices,
                 vectorVars>>

\* The caller is left with the first cbRawData bytes only.
Truncate(cbRawData) ==
    /\ cbRawData < Size(pbRawData)
    /\ pbRawData' = [k \in 0..(cbRawData - 1) |-> pbRawData[k]]
    /\ UNCHANGED <<m_storage, issued, given, reference, erased, splices,
                 vectorVars>>

\* The units a changed unit is drawn from: an index into the buffer, its
\* size and an index far behind it, each as m_nextIndex, m_lastChildIndex or
\* m_cbData; a name length with a type; a data size above DataMax.
TamperUnits ==
    { UnitOf(k) : k \in 0..Size(m_storage) \cup {Size(m_storage) + FarBehind} }
       \cup { Bitfield(n, type) : n \in TamperNames, type \in TamperTypes }
       \cup { DataOverMax }

\* The builder of a caller that adds at the back and erases, then takes the
\* bytes of the builder, of which one unit changes or the end is lost.
NextRaw ==
    \/ /\ Cardinality(issued) < MaxRawValues
       /\ pbRawData = NoBytes
       /\ \E itParent \in Iterators, name \in NameSet, type \in TypeSet :
             AddValue(FALSE, itParent, name, type, Len(DataOf(type)),
                      DataOf(type))
    \/ /\ pbRawData = NoBytes
       /\ \E itValue \in issued \ erased : erase(itValue)
    \/ Serialize
    \/ /\ pbRawData # NoBytes
       /\ pbRawData = buffer_data(m_storage)
       /\ \E i \in DOMAIN m_storage, u \in TamperUnits : Tamper(i, u)
    \/ /\ pbRawData # NoBytes
       /\ pbRawData = buffer_data(m_storage)
       /\ \E cbRawData \in 0..(buffer_size(m_storage) - 1) : Truncate(cbRawData)

SpecRaw == Init /\ [][NextRaw]_vars

\* The buffer the constructor makes of the caller's bytes, when their number
\* is a multiple of StorageSize.
RawStorage == PodVectorOf(pbRawData, Size(pbRawData) \div StorageSize)

\* --------------------------------------------------------- staged insert

\* A pointer with a length, as a caller passes for a name or a payload: base
\* is the address of the allocation it points into (0: memory of the caller,
\* outside every allocation of the builder), off the offset in bytes.
View(base, off, len) == [base |-> base, off |-> off, len |-> len]

\* The memory of the caller.
CallerByte(off) == 65 + (off % 23)

\* What a read of freed memory may yield: Stale for the bytes the
\* allocation had when it was freed, or a byte that fills the block.
Stale == ByteRange
FreedOutcomes == { Stale, 0, ByteRange - 1 }

\* The bytes memcpy reads through the view p, the arena being s at address
\* data.
Load(s, data, p, freed) ==
    [k \in 1..p.len |->
        IF p.base = 0 THEN CallerByte(p.off + k - 1)
        ELSE IF p.base = data \/ freed = Stale THEN ByteAt(s, 0, p.off + k - 1)
        ELSE freed]

\* The bytes the view designates at the time of the call.
Designated(s, data, p) == Load(s, data, p, Stale)

\* PodVectorBase::GetNewCapacity
RECURSIVE GetNewCapacityLoop(_, _)
GetNewCapacityLoop(cap, minCapacity) ==
    IF cap < minCapacity THEN GetNewCapacityLoop(cap + cap + 1, minCapacity)
    ELSE cap

\* A growth policy that allocates what is asked for and no more.
GetNewCapacityExact(minCapacity, maxCapacity) == minCapacity

GetNewCapacity(minCapacity, maxCapacity) ==
    LET cap == IF minCapacity <= MinCapacity THEN MinCapacity
               ELSE GetNewCapacityLoop(MinCapacity + MinCapacity + 1, minCapacity)
    IN IF maxCapacity < cap THEN maxCapacity ELSE cap

\* GetNewCapacity throws (JsonThrowLengthError): maxCapacity is below the
\* capacity of the policy and below minCapacity.
GetNewCapacityThrows(minCapacity, maxCapacity) ==
    LET cap == IF minCapacity <= MinCapacity THEN MinCapacity
               ELSE GetNewCapacityLoop(MinCapacity + MinCapacity + 1, minCapacity)
    IN maxCapacity < cap /\ maxCapacity < minCapacity

\* The root and its sentinel, in units.
RootSize == DATA_OFFSET(0) + SizeofJsonValueBase \div StorageSize

\* CreateRoot()
CreateRoot ==
    [i \in 0..(RootSize - 1) |->
        IF i = 0 THEN UnitOf(DATA_OFFSET(0))
        ELSE IF i = 1 THEN Bitfield(0, JsonObject)
        ELSE IF i = 2 THEN UnitOf(DATA_OFFSET(0))
        ELSE IF i = DATA_OFFSET(0) THEN UnitOf(0)
        ELSE Bitfield(0, JsonHidden)]

\* The fix-up of NewValueInitImpl left out.
RebaseNameNever(pName, oldData, oldSize, newData) == pName

\* NewValueInitImpl, after reserve() has moved the arena from oldData to
\* newData: a name inside the old allocation is read from the new one.
RebaseName(pName, oldData, oldSize, newData) ==
    IF pName.base = oldData /\ pName.off > 0 /\ pName.off < oldSize * StorageSize
    THEN [pName EXCEPT !.base = newData]
    ELSE pName

\* The fix-up of _newValueCommit left out.
RebaseDataNever(pbData, pOldStorageData, newIndex, newData) == pbData

\* _newValueCommit: a payload inside the allocation the arena had when
\* NewValueInit began is read from the allocation it has now.
RebaseData(pbData, pOldStorageData, newIndex, newData) ==
    IF /\ pOldStorageData # newData
       /\ pOldStorageData # 0
       /\ pbData.base = pOldStorageData
       /\ pbData.off > 0
       /\ pbData.off < newIndex * StorageSize
    THEN [pbData EXCEPT !.base = newData]
    ELSE pbData

\* The addresses malloc may return while the block at m_data is in use.
Addresses == 1..MaxAddress

\* The arithmetic of the type unsigned, on units: the halves of a value, the
\* value of two halves, the sum modulo 2^32 and the order.
Lo16(u) == u[1] + ByteRange * u[2]
Hi16(u) == u[3] + ByteRange * u[4]
Unit32(hi, lo) ==
    << lo % ByteRange, lo \div ByteRange, hi % ByteRange, hi \div ByteRange >>
Add32(a, b) ==
    LET lo == Lo16(a) + Lo16(b)
        hi == Hi16(a) + Hi16(b) + lo \div HalfRange
    IN Unit32(hi % HalfRange, lo % HalfRange)
Less32(a, b) ==
    Hi16(a) < Hi16(b) \/ (Hi16(a) = Hi16(b) /\ Lo16(a) < Lo16(b))

\* (cbData + StorageSize - 1) / StorageSize for cbData <= DataMax, where the
\* sum does not wrap.
DataUnits(cbData) ==
    (cbData[1] + StorageSize - 1) \div StorageSize
       + (ByteRange \div StorageSize)
            * (cbData[2] + ByteRange * (cbData[3] + ByteRange * cbData[4]))

\* NewValueInit with the tests of the name and of the hint but without the
\* tests for integer overflow.
NewValueInitThrowsUnwrapped(size, cchName, cbDataHint) == IF cchName > NameMax \/ DataTooLarge(cbDataHint) THEN "length_error" ELSE "none"

\* What NewValueInit / NewValueInitImpl throw before they allocate, the
\* arena having size units: JsonThrowLengthError for a name above NameMax,
\* for a hint above DataMax and for an index that wraps.
NewValueInitThrows(size, cchName, cbDataHint) ==
    IF cchName > NameMax THEN "length_error"
    ELSE IF DataTooLarge(cbDataHint) THEN "length_error"
    ELSE LET hint == IF ValueOf(cbDataHint) < SizeofPointer
                     THEN UnitOf(SizeofPointer) ELSE cbDataHint
             valueIndex == size
             dataIndex == Add32(valueIndex, UnitOf(DATA_OFFSET(cchName)))
             newStorageSize == Add32(dataIndex, UnitOf(DataUnits(hint)))
         IN IF ~Less32(valueIndex, dataIndex) \/ Less32(newStorageSize, dataIndex)
            THEN "length_error"
            ELSE IF /\ size = UnitOf(0)
                    /\ Less32(Add32(newStorageSize, UnitOf(RootSize)),
                              UnitOf(RootSize))
            THEN "length_error"
            ELSE "none"

\* What _newValueCommit throws before it resizes, the arena having newIndex
\* units and the staged name cchName bytes.
newValueCommitThrows(newIndex, cchName, type, cbData) ==
    IF DataTooLarge(cbData) THEN "length_error"
    ELSE LET dataIndex == Add32(newIndex, UnitOf(DATA_OFFSET(cchName)))
             cb == IF IS_COMPOSITE_TYPE(type) THEN UnitOf(SizeofJsonValueBase)
                   ELSE cbData
             newStorageSize == Add32(dataIndex, UnitOf(DataUnits(cb)))
         IN IF Less32(newStorageSize, dataIndex) THEN "length_error"
            ELSE "none"

\* What CreateValue throws before it resizes, the arena having size units.
CreateValueThrows(size, cchName, type, cbData) ==
    IF cchName > NameMax THEN "invalid_argument"
    ELSE IF DataTooLarge(cbData) THEN "invalid_argument"
    ELSE LET cb == IF IS_COMPOSITE_TYPE(type) THEN UnitOf(SizeofJsonValueBase)
                   ELSE cbData
             valueIndex == size
             dataIndex == Add32(valueIndex, UnitOf(DATA_OFFSET(cchName)))
             newStorageSize == Add32(dataIndex, UnitOf(DataUnits(cb)))
         IN IF ~Less32(valueIndex, newStorageSize) THEN "invalid_argument"
            ELSE "none"

\* A reallocation that hands out zeroed memory and copies nothing.
GrowToZeroed(s, m_size) == [i \in 0..(m_size - 1) |-> UnitOf(0)]

\* PodVector::GrowTo: InitData copies the m_size units of the arena into the
\* new allocation.  (The units NewValueInit has staged behind the size of
\* the arena are kept in `staged`.)
GrowTo(s, m_size) == [i \in 0..(m_size - 1) |-> s[i]]

\* NewValueInit(front, itParent, pchNameUtf8, cchName, cbDataHint) of an
\* insert whose second step will be _newValueCommit(type, cbData, pbData).
\* cbDataHint and cbData are units (values of the type unsigned); newData is
\* the address malloc returns if it is called, fail says that it returns
\* nullptr, freed is what a read of freed memory yields.
NewValueInit(front, itParent, pName, cbDataHint, type, cbData, pbData, newData, fail, freed) ==
    LET cbHint == IF ValueOf(cbDataHint) < SizeofPointer THEN SizeofPointer
                  ELSE ValueOf(cbDataHint)
        valueIndex == Size(m_storage)
        dataIndex == valueIndex + DATA_OFFSET(pName.len)
        newStorageSize == dataIndex + (cbHint + StorageSize - 1) \div StorageSize
        empty == Size(m_storage) = 0
        minCapacity == IF empty THEN newStorageSize + RootSize ELSE newStorageSize
        grows == m_capacity < minCapacity
        data1 == IF grows THEN newData ELSE m_data
        pNameAfterAlloc ==
            IF empty \/ ~grows THEN pName
            ELSE RebaseName(pName, m_data, Size(m_storage), data1)
    IN /\ staged = NoStage
       /\ itParent \in Iterators
       /\ ~empty => IS_COMPOSITE_TYPE(m_type(m_storage, itParent))
       /\ newData \in Addresses \ {m_data}
       /\ IF NewValueInitThrows(UnitOf(Size(m_storage)), pName.len, cbDataHint) # "none"
          THEN /\ thrown' = NewValueInitThrows(UnitOf(Size(m_storage)), pName.len,
                                               cbDataHint)
               /\ UNCHANGED <<m_storage, m_capacity, m_data, staged>>
          ELSE IF grows /\ fail
          THEN /\ thrown' = "bad_alloc"
               /\ UNCHANGED <<m_storage, m_capacity, m_data, staged>>
          ELSE /\ thrown' = "none"
               /\ m_storage' = IF empty THEN CreateRoot
                               ELSE IF grows
                               THEN GrowTo(m_storage, Size(m_storage))
                               ELSE m_storage
               /\ m_capacity' = IF grows THEN GetNewCapacity(minCapacity, Saturated)
                                ELSE m_capacity
               /\ m_data' = data1
               /\ staged' =
                     [parent |-> itParent, front |-> front,
                      name |-> Load(m_storage, data1, pNameAfterAlloc, freed),
                      pOldStorageData |-> m_data,
                      type |-> type, cbData |-> cbData, pbData |-> pbData,
                      expectedName |-> Designated(m_storage, m_data, pName),
                      expectedData |-> IF DataTooLarge(cbData) THEN <<>>
                                       ELSE Designated(m_storage, m_data, pbData),
                      inside |-> pName.base # 0 \/ pbData.base # 0,
                      moved |-> grows /\ ~empty]
    /\ UNCHANGED <<issued, given, reference, erased, splices, pbRawData, stale>>

\* The arena when _newValueCommit has written the node and, for an array or
\* object, linked its sentinel behind the root; the node itself is not
\* linked yet.
CommitWrite(s, name, type, cbData, data) == CreateValue(s, name, type, cbData, data)

\* The arena with its size set to newSize: the units behind the old size
\* are what NewValueInit left there (the parent in m_nextIndex, front in
\* m_type, the name) and, in m_cbData, what the allocation held (fill).
ResizedTo(s, newSize, stage, fill) ==
    [i \in 0..(newSize - 1) |->
        IF i < Size(s) THEN s[i]
        ELSE IF i = Size(s) THEN UnitOf(stage.parent)
        ELSE IF i = Size(s) + 1
        THEN Bitfield(Len(stage.name), IF stage.front THEN 1 ELSE 0)
        ELSE IF i = Size(s) + 2 THEN << fill, fill, fill, fill >>
        ELSE PodOfBytes(stage.name, i - Size(s) - SizeofJsonValue \div StorageSize)]

\* _newValueCommit without the RestoreOldSize guard: the size stays where
\* resize(dataIndex) has put it.
RestoreOldSizeDismissed(oldSize, dataIndex) == dataIndex

\* ~RestoreOldSize(): resize(m_oldSize), when resize(newStorageSize) has
\* thrown after resize(dataIndex).
RestoreOldSize(oldSize, dataIndex) == oldSize

\* _newValueCommit(type, cbData, pbData) for the insert NewValueInit has
\* staged.
newValueCommit(newData, fail, freed) ==
    LET newIndex == Size(m_storage)
        composite == IS_COMPOSITE_TYPE(staged.type)
        dataIndex == newIndex + DATA_OFFSET(Len(staged.name))
        cb == IF composite THEN SizeofJsonValueBase ELSE ValueOf(staged.cbData)
        newStorageSize == dataIndex + (cb + StorageSize - 1) \div StorageSize
        grows == m_capacity < newStorageSize
        data1 == IF grows THEN newData ELSE m_data
        pbData == RebaseData(staged.pbData, staged.pOldStorageData, newIndex, data1)
        data == IF composite THEN <<>> ELSE Load(m_storage, data1, pbData, freed)
    IN /\ staged # NoStage
       /\ newData \in Addresses \ {m_data}
       /\ staged' = NoStage
       /\ IF newValueCommitThrows(UnitOf(newIndex), Len(staged.name), staged.type,
                                staged.cbData) # "none"
          THEN /\ thrown' = newValueCommitThrows(UnitOf(newIndex), Len(staged.name),
                                                 staged.type, staged.cbData)
               /\ UNCHANGED <<m_storage, m_capacity, m_data, issued, given,
                              reference>>
          ELSE IF grows /\ fail
          THEN /\ thrown' = "bad_alloc"
               /\ m_storage' =
                     ResizedTo(m_storage, RestoreOldSize(newIndex, dataIndex),
                               staged, IF freed = Stale THEN 0 ELSE freed)
               /\ UNCHANGED <<m_capacity, m_data, issued, given, reference>>
          ELSE /\ thrown' = "none"
               /\ m_capacity' = IF grows THEN GetNewCapacity(newStorageSize, Saturated)
                                ELSE m_capacity
               /\ m_data' = data1
               /\ m_storage' =
                     LinkValue(CommitWrite(IF grows THEN GrowTo(m_storage, newIndex)
                                           ELSE m_storage,
                                           staged.name, staged.type, cb, data),
                               staged.front, staged.parent, newIndex)
               /\ issued' = issued \cup {newIndex}
               /\ given' = [n \in issued \cup {newIndex} |->
                              IF n = newIndex
                              THEN [parent |-> staged.parent,
                                    name |-> staged.expectedName,
                                    type |-> staged.type,
                                    data |-> staged.expectedData,
                                    inside |-> staged.inside,
                                    moved |-> staged.moved \/ grows]
                              ELSE given[n]]
               /\ reference' = [p \in DOMAIN reference \cup {newIndex} |->
                                  IF p = newIndex THEN <<>>
                                  ELSE IF p = staged.parent
                                       THEN (IF staged.front
                                             THEN <<newIndex>> \o reference[p]
                                             ELSE Append(reference[p], newIndex))
                                       ELSE reference[p]]
    /\ UNCHANGED <<erased, splices, pbRawData, stale>>

\* The names a caller passes: a name in its own memory, or the name of a
\* value of the builder, as Name() returns it.
NameViews ==
    { View(0, 0, len) : len \in CallerNameSizes }
       \cup { View(m_data, (n + SizeofJsonValue \div StorageSize) * StorageSize,
                   m_cchName(m_storage, n)) : n \in issued }

\* The payloads a caller passes: bytes in its own memory, or the payload of
\* a leaf of the builder, as Data() returns it.
DataViews ==
    { View(0, CallerPayloadAt, len) : len \in CallerPayloadSizes }
       \cup { View(m_data,
                   (n + DATA_OFFSET(m_cchName(m_storage, n))) * StorageSize,
                   m_cbData(m_storage, n)) :
                 n \in { k \in issued : IS_NORMAL_TYPE(m_type(m_storage, k)) } }

\* The builder of a caller that adds leaves at the back of the root in two
\* steps, with names and payloads of its own or taken from the builder, with
\* a hint of the size of the payload or without, and at times with a
\* payload size above DataMax.
NextGrow ==
    \/ /\ Cardinality(issued) < MaxGrowValues
       /\ \E pName \in NameViews, pbData \in DataViews, hinted \in BOOLEAN,
             over \in BOOLEAN, newData \in Addresses, fail \in BOOLEAN,
             freed \in FreedOutcomes :
             /\ over => pbData.base = 0 /\ hinted
             /\ NewValueInit(FALSE, 0, pName,
                             IF hinted /\ ~over THEN UnitOf(pbData.len)
                             ELSE IF over /\ pbData.len = 1 THEN DataOverMax
                             ELSE UnitOf(0),
                             JsonBool,
                             IF over THEN DataOverMax ELSE UnitOf(pbData.len),
                             pbData, newData, fail, freed)
    \/ \E newData \in Addresses, fail \in BOOLEAN, freed \in FreedOutcomes :
          newValueCommit(newData, fail, freed)

SpecGrow == Init /\ [][NextGrow]_vars

\* ------------------------------------------------- reference vocabulary

\* The children of itParent that were inserted (or spliced in) and not erased,
\* in reference order.
Visible(itParent) ==
    LET NotErased(n) == n \notin erased
    IN SelectSeq(reference[itParent], NotErased)

\* "itParent references an array or an object", the root of an empty builder
\* included.
IsParent(s, itParent) ==
    Size(s) = 0 \/ IS_COMPOSITE_TYPE(m_type(s, itParent))

\* The nodes linked as children of a composite: those that m_nextIndex
\* reaches from its sentinel, up to and including m_lastChildIndex.
RECURSIVE ChainFrom(_, _, _, _)
ChainFrom(s, index, lastIndex, fuel) ==
    IF index = lastIndex \/ fuel = 0 THEN <<>>
    ELSE LET next == m_nextIndex(s, index)
         IN <<next>> \o ChainFrom(s, next, lastIndex, fuel - 1)

ChildChain(s, itParent) ==
    ChainFrom(s, FirstChild(s, itParent), LastChild(s, itParent), Size(s))

\* The nodes that m_nextIndex reaches from the root, up to its return to 0.
RECURSIVE FlatFrom(_, _, _)
FlatFrom(s, index, fuel) ==
    LET next == m_nextIndex(s, index)
    IN IF next = 0 THEN <<>>
       ELSE IF fuel = 0 THEN <<Size(s)>>
       ELSE <<next>> \o FlatFrom(s, next, fuel - 1)

FlatList(s) == IF Size(s) = 0 THEN <<>> ELSE FlatFrom(s, 0, Size(s))

NoDuplicates(q) == Cardinality(SeqToSet(q)) = Len(q)

\* The flat list is one cycle through index 0 that holds every issued node.
ListWellFormed(s) ==
    /\ NoDuplicates(FlatList(s))
    /\ \A n \in SeqToSet(FlatList(s)) : n < Size(s)
    /\ issued \subseteq SeqToSet(FlatList(s))

\* -------------------------------------------------------------------- C1
\* C1: for every array or object P, the children that begin(P) .. end(P)
\* shows are the nodes inserted into P and not erased, in the order of the
\* reference sequence (push_back appends, push_front prepends).
C1_InsertOrder ==
    \A P \in Iterators :
        IsParent(m_storage, P) => IterateChildren(m_storage, P) = Visible(P)

\* A parent that got a first child, then one at the back, then one at the
\* front, one of which was erased afterwards.
C1_Witness ==
    /\ splices = 0
    /\ \E P \in Iterators :
          /\ IsParent(m_storage, P)
          /\ Len(reference[P]) = 3
          /\ reference[P][2] < reference[P][3]
          /\ reference[P][3] < reference[P][1]
          /\ Len(Visible(P)) = 2
          /\ IterateChildren(m_storage, P) = Visible(P)

\* -------------------------------------------------------------------- C2
\* C2: for every array or object P, ++ from begin(P) reaches end(P) after
\* exactly the non-hidden nodes of P's child chain, in chain order; it shows
\* no sentinel, no erased node and no child of another parent; and
\* begin(P) = end(P) when P has no visible child.
C2_Iteration ==
    \A P \in Iterators :
        IsParent(m_storage, P) =>
            LET NotHidden(n) == m_type(m_storage, n) # JsonHidden
                chain == IF Size(m_storage) = 0 THEN <<>>
                         ELSE ChildChain(m_storage, P)
                seen == IterateChildren(m_storage, P)
            IN /\ seen = SelectSeq(chain, NotHidden)
               /\ \A n \in SeqToSet(seen) :
                     /\ n \in issued
                     /\ n \notin erased
                     /\ n \in SeqToSet(reference[P])
                     /\ \A Q \in Iterators \ {P} :
                           n \notin SeqToSet(reference[Q])
               /\ (Visible(P) = <<>> =>
                     cbeginOf(m_storage, P) = cendOf(m_storage, P))

\* A parent whose chain holds an erased node and a visible one, next to
\* another parent that has a visible child and one that has none.
C2_Witness ==
    \E P \in Iterators, Q \in Iterators :
        /\ P # Q
        /\ CanIterateOver(m_storage, P)
        /\ CanIterateOver(m_storage, Q)
        /\ \E n \in SeqToSet(ChildChain(m_storage, P)) :
              m_type(m_storage, n) = JsonHidden
        /\ Len(IterateChildren(m_storage, P)) = 1
        /\ Len(IterateChildren(m_storage, Q)) = 1

\* -------------------------------------------------------------------- C3
\* The unit at index i is the same in s and s2, or it is the unit with the
\* type of one of the nodes in `hidden` and differs in the type byte only,
\* which is JsonHidden in s2.
OnlyTypeChanged(s, s2, hidden) ==
    /\ DOMAIN s2 = DOMAIN s
    /\ \A i \in DOMAIN s :
          \/ s2[i] = s[i]
          \/ /\ i - 1 \in hidden
             /\ s2[i] = [s[i] EXCEPT ![4] = JsonHidden]

\* Every field but the type is what it was: the size of the buffer, every
\* m_nextIndex, every m_lastChildIndex, every name and every payload.
FieldsKept(s, s2) ==
    /\ Size(s2) = Size(s)
    /\ \A n \in IF Size(s) = 0 THEN {} ELSE Iterators :
          /\ m_nextIndex(s2, n) = m_nextIndex(s, n)
          /\ m_cchName(s2, n) = m_cchName(s, n)
          /\ m_lastChildIndex(s2, n) = m_lastChildIndex(s, n)
          /\ Name(s2, n) = Name(s, n)
          /\ n # 0 /\ IS_NORMAL_TYPE(given[n].type) => Data(s2, n) = Data(s, n)
          /\ IS_COMPOSITE_TYPE(m_type(s, n)) =>
                m_nextIndex(s2, FirstChild(s, n)) = m_nextIndex(s, FirstChild(s, n))

\* C3: erase(it) and erase(itBegin, itEnd) change nothing but the type field
\* of the nodes they hide.
C3_EraseFrame ==
    /\ \A it \in issued :
          LET s2 == eraseStorage(m_storage, it)
          IN /\ OnlyTypeChanged(m_storage, s2, {it})
             /\ FieldsKept(m_storage, s2)
             /\ m_type(s2, it) = JsonHidden
    /\ \A itBegin \in Iterators, itEnd \in Iterators :
          eraseRangeReaches(m_storage, itBegin, itEnd, Size(m_storage)) =>
             LET s2 == eraseRangeLoop(m_storage, itBegin, itEnd, Size(m_storage))
                 visits == SeqToSet(eraseRangeVisits(m_storage, itBegin, itEnd,
                                                     Size(m_storage)))
             IN /\ OnlyTypeChanged(m_storage, s2, visits)
                /\ FieldsKept(m_storage, s2)
                /\ \A n \in visits : m_type(s2, n) = JsonHidden

\* A named array with a child and a named value with a payload were erased,
\* and their links, names and payload are those the inserts wrote.
C3_Witness ==
    \E a \in erased, b \in erased :
        /\ given[a].type = JsonArray
        /\ given[a].name # <<>>
        /\ Name(m_storage, a) = given[a].name
        /\ m_lastChildIndex(m_storage, a) # FirstChild(m_storage, a)
        /\ given[b].type = JsonBool
        /\ given[b].name # <<>>
        /\ Name(m_storage, b) = given[b].name
        /\ Data(m_storage, b) = given[b].data
        /\ m_type(m_storage, a) = JsonHidden
        /\ m_type(m_storage, b) = JsonHidden

\* -------------------------------------------------------------------- C4
\* C4: count(P) is the number of children inserted into P less the number of
\* them that were erased; it is 0 on an empty builder and on a parent that
\* is no array or object; one more erase of a visible child lowers it by one.
C4_Count ==
    \A P \in Iterators :
        /\ count(m_storage, P) =
              (IF CanIterateOver(m_storage, P)
               THEN Len(reference[P])
                    - Cardinality(SeqToSet(reference[P]) \cap erased)
               ELSE 0)
        /\ CanIterateOver(m_storage, P) =>
              \A it \in SeqToSet(Visible(P)) \ {P} :
                  count(eraseStorage(m_storage, it), P) = count(m_storage, P) - 1

\* A parent with three children, one of them erased, next to a value that is
\* no parent.
C4_Witness ==
    \E P \in Iterators, Q \in Iterators :
        /\ CanIterateOver(m_storage, P)
        /\ Len(reference[P]) = 3
        /\ Cardinality(SeqToSet(reference[P]) \cap erased) = 1
        /\ count(m_storage, P) = 2
        /\ ~CanIterateOver(m_storage, Q)
        /\ count(m_storage, Q) = 0

\* -------------------------------------------------------------------- C5
\* C5: a second erase through the iterator of an erased node changes nothing,
\* returns what the first erase returned, and the list stays well formed.
C5_EraseIdempotent ==
    /\ \A it \in erased :
          /\ eraseStorage(m_storage, it) = m_storage
          /\ ListWellFormed(eraseStorage(m_storage, it))
    /\ \A it \in issued :
          LET s1 == eraseStorage(m_storage, it)
              s2 == eraseStorage(s1, it)
          IN /\ s2 = s1
             /\ NextIndex(s2, it) = NextIndex(s1, it)
             /\ ListWellFormed(s2)

\* An erased node that still has visible neighbours in the list.
C5_Witness ==
    \E it \in erased :
        /\ m_type(m_storage, it) = JsonHidden
        /\ NextIndex(m_storage, it) # 0
        /\ issued \ erased # {}

\* -------------------------------------------------------------------- C6
\* The names a caller searches for: those in use and one that is not.
QueryNames == NameSet \cup { <<121>> }

\* An iterator an operation may return: end(), or a node that is not hidden.
Presentable(s, it) ==
    it = 0 \/ (it < Size(s) /\ m_type(s, it) # JsonHidden)

HiddenChildren(s, itParent) ==
    { n \in SeqToSet(ChildChain(s, itParent)) : m_type(s, n) = JsonHidden }

\* C7: splice_front / splice_back(P1, P2, pred) with P1 and P2 arrays or
\* objects takes out of P1 exactly the visible children that satisfy pred and
\* leaves the others in their order; the children taken keep their order and
\* are the first (splice_front) or the last (splice_back) children of P2.
\* With P1 = [a, b, c, d] and P2 empty, splice_front of all gives P1 = [] and
\* P2 = [a, b, c, d], and splice_back of {b, d} gives P1 = [a, c] and
\* P2 = [b, d].
C7_Splice ==
    \A P1 \in Iterators, P2 \in Iterators :
        (CanIterateOver(m_storage, P1) /\ CanIterateOver(m_storage, P2)) =>
            LET kids1 == IterateChildren(m_storage, P1)
                kids2 == IterateChildren(m_storage, P2)
            IN /\ \A front \in BOOLEAN, sel \in SUBSET SeqToSet(kids1) :
                     LET s2 == SpliceStorage(m_storage, front, P1, P2, sel)
                         Moves(n) == n \in sel
                         Stays(n) == n \notin sel
                         moved == SelectSeq(kids1, Moves)
                         rest == SelectSeq(kids1, Stays)
                         base2 == IF P1 = P2 THEN rest ELSE kids2
                     IN /\ P1 # P2 => IterateChildren(s2, P1) = rest
                        /\ IterateChildren(s2, P2) =
                              (IF front THEN moved \o base2 ELSE base2 \o moved)
                        /\ HiddenChildren(m_storage, P1)
                              \subseteq HiddenChildren(s2, P1)
               /\ (Len(kids1) = 4 /\ kids2 = <<>> /\ P1 # P2) =>
                     LET all == SpliceStorage(m_storage, TRUE, P1, P2,
                                              SeqToSet(kids1))
                         bd == SpliceStorage(m_storage, FALSE, P1, P2,
                                             {kids1[2], kids1[4]})
                     IN /\ IterateChildren(all, P1) = <<>>
                        /\ IterateChildren(all, P2) = kids1
                        /\ IterateChildren(bd, P1) = <<kids1[1], kids1[3]>>
                        /\ IterateChildren(bd, P2) = <<kids1[2], kids1[4]>>

\* After a splice of {b, d} from P1 = [a, b, c, d] into the empty P2:
\* P1 = [a, c] and P2 = [b, d].
C7_Witness ==
    /\ splices = 1
    /\ \E P1 \in Arrays, P2 \in Arrays :
          /\ P1 # P2
          /\ Len(reference[P1]) = 2
          /\ Len(reference[P2]) = 2
          /\ \A n \in SeqToSet(reference[P1] \o reference[P2]) :
                given[n].parent = P1
          /\ reference[P1][1] < reference[P2][1]
          /\ reference[P2][1] < reference[P1][2]
          /\ reference[P1][2] < reference[P2][2]
          /\ IterateChildren(m_storage, P1) = reference[P1]
          /\ IterateChildren(m_storage, P2) = reference[P2]

\* -------------------------------------------------------------------- C8
\* The first child of P in reference order that is not erased and was given
\* the name; 0 (end()) when there is none.
RECURSIVE FirstNamed(_, _)
FirstNamed(q, name) ==
    IF q = <<>> THEN 0
    ELSE IF Head(q) \notin erased /\ given[Head(q)].name = name THEN Head(q)
    ELSE FirstNamed(Tail(q), name)

\* C8: find(P, name) is the first visible child of P whose name has the same
\* length and bytes as name, and end() when P has no such child.
C8_FindFirst ==
    \A P \in Iterators, name \in QueryNames :
        Find(m_storage, P, <<name>>) =
            (IF CanIterateOver(m_storage, P)
             THEN FirstNamed(reference[P], name) ELSE 0)

\* find passes an erased child of the name and a child of another name, and
\* returns a later child of the name.
C8_Witness ==
    \E P \in Iterators, name \in NameSet :
        /\ CanIterateOver(m_storage, P)
        /\ Len(reference[P]) = 3
        /\ reference[P][1] \in erased
        /\ given[reference[P][1]].name = name
        /\ given[reference[P][2]].name # name
        /\ Find(m_storage, P, <<name>>) = reference[P][3]

\* -------------------------------------------------------------------- C9
\* The root has a visible child of the name.
Present(x) == FirstNamed(reference[0], x) # 0

\* The statement as the specification has it: find(root, x, y) is
\* find(find(root, x), y) for all names x and y.
C9_AsClaimed ==
    \A x \in QueryNames, y \in QueryNames :
        Find(m_storage, 0, <<x, y>>)
            = Find(m_storage, Find(m_storage, 0, <<x>>), <<y>>)

\* C9: find(root, x, y) is find(find(root, x), y) whenever find(root, x) is
\* not end(), and it is end() whenever a name of the path has no match.
C9_FindPath ==
    \A x \in QueryNames, y \in QueryNames :
        LET first == Find(m_storage, 0, <<x>>)
        IN /\ first # 0 =>
                 Find(m_storage, 0, <<x, y>>) = Find(m_storage, first, <<y>>)
           /\ ~Present(x) => Find(m_storage, 0, <<x, y>>) = 0
           /\ (Present(x) /\ FirstNamed(reference[first], y) = 0) =>
                 Find(m_storage, 0, <<x, y>>) = 0

\* The root has a child named y and none named x, so find(root, x) is end()
\* and a search from it is a search of the root; and a path of two names
\* that has a match.
C9_Witness ==
    /\ \E x \in NameSet, y \in NameSet :
          /\ ~Present(x)
          /\ Present(y)
          /\ Find(m_storage, 0, <<x, y>>) = 0
          /\ Find(m_storage, Find(m_storage, 0, <<x>>), <<y>>) # 0
    /\ \E x \in NameSet, y \in NameSet : Find(m_storage, 0, <<y, x>>) # 0

\* ------------------------------------------------------------------- C10
\* C10: the data of every reachable state passes ValidateData().
C10_Valid == ValidateData(m_storage)

\* Data that inserts at both ends, an erase and a splice have shaped.
C10_Witness ==
    /\ splices > 0
    /\ erased # {}
    /\ \E P \in issued : Len(Visible(P)) > 0
    /\ ValidateData(m_storage)

\* ------------------------------------------------------------------- C11
\* The visible children of every parent, with their types, names and
\* payloads, are the same in the arenas s and t.
SameTree(s, t) ==
    /\ cbegin(t) = cbegin(s)
    /\ \A P \in Iterators :
          IsParent(s, P) =>
             /\ IterateChildren(t, P) = IterateChildren(s, P)
             /\ \A n \in SeqToSet(IterateChildren(s, P)) :
                   /\ m_type(t, n) = m_type(s, n)
                   /\ Name(t, n) = Name(s, n)
                   /\ IS_NORMAL_TYPE(m_type(s, n)) => Data(t, n) = Data(s, n)

\* C11: a builder constructed, with validation, from buffer_data() and
\* buffer_size() of a builder is constructed without error and shows the
\* same visible nodes, names, payloads and order under every parent.
C11_RoundTrip ==
    LET copy == JsonBuilderRaw(buffer_data(m_storage), buffer_size(m_storage),
                               TRUE)
    IN /\ copy.ok
       /\ SameTree(m_storage, copy.m_storage)

\* A tree with a named array that has a child, and a named value with a
\* payload, is read back.
C11_Witness ==
    /\ erased = {}
    /\ \E a \in issued, b \in issued, c \in issued :
          /\ given[a].type = JsonArray
          /\ given[a].name # <<>>
          /\ given[b].parent = a
          /\ given[c].type = JsonBool
          /\ given[c].name # <<>>
          /\ given[c].parent = 0
    /\ LET copy == JsonBuilderRaw(buffer_data(m_storage),
                                  buffer_size(m_storage), TRUE)
       IN copy.ok /\ Size(copy.m_storage) = Size(m_storage)

\* ------------------------------------------------- the flat list of a buffer

\* The units the node at index n claims: its header; unless it is hidden,
\* the third unit of JsonValue and its name; for a leaf, its payload.  What
\* lies at or behind the size of the buffer is not read.
Claimed(s, n) ==
    LET header == { n, n + 1 }
    IN IF n + 1 \notin DOMAIN s THEN header
       ELSE IF m_type(s, n) = JsonHidden THEN header
       ELSE LET nameEnd == DATA_OFFSET(m_cchName(s, n))
                named == n..(n + nameEnd - 1)
            IN IF ~IS_NORMAL_TYPE(m_type(s, n)) \/ n + 2 \notin DOMAIN s
                  \/ DataTooLarge(s[n + 2])
               THEN named
               ELSE n..(n + nameEnd - 1
                          + (m_cbData(s, n) + StorageSize - 1) \div StorageSize)

\* The indexes met by following nextIndex from index 0, up to the first that
\* is 0 again, lies outside the buffer, or was met before.  The last index
\* of the sequence is that closing index.
RECURSIVE FollowNext(_, _)
FollowNext(s, met) ==
    LET n == met[Len(met)]
    IN IF n \notin DOMAIN s THEN met
       ELSE IF Len(met) > 1 /\ (n = 0 \/ n \in SeqToSet(SubSeq(met, 1, Len(met) - 1)))
       THEN met
       ELSE FollowNext(s, Append(met, m_nextIndex(s, n)))

Walked(s) ==
    LET met == FollowNext(s, <<0>>)
    IN SeqToSet(SubSeq(met, 1, Len(met) - 1))

Closing(s) == FollowNext(s, <<0>>)[Len(FollowNext(s, <<0>>))]

ExtendsPastSize(s) == \E n \in Walked(s) : ~(Claimed(s, n) \subseteq DOMAIN s)
NextOutside(s) == Closing(s) \notin DOMAIN s
Overlapping(s) ==
    \E n \in Walked(s), k \in Walked(s) :
       n # k /\ Claimed(s, n) \cap Claimed(s, k) # {}
VisitedTwice(s) == Closing(s) \in DOMAIN s /\ Closing(s) # 0
DataOverCeiling(s) ==
    \E n \in Walked(s) :
       /\ n + 2 \in DOMAIN s
       /\ Claimed(s, n) \subseteq DOMAIN s
       /\ IS_NORMAL_TYPE(m_type(s, n))
       /\ DataTooLarge(s[n + 2])

\* The caller's bytes make a buffer of whole units that is not empty.
WholeUnits == Size(pbRawData) # 0 /\ Size(pbRawData) % StorageSize = 0

\* C12: Validate throws "corrupt data" on every buffer in which, following
\* nextIndex from index 0, a node claims a unit at or behind the size of the
\* buffer, a nextIndex is no index of the buffer, two nodes claim the same
\* unit, a node is met a second time before index 0 is met again, or a leaf
\* declares a data size above DataMax.
C12_FlatListDefects ==
    WholeUnits =>
       LET s == RawStorage
       IN (\/ ExtendsPastSize(s)
           \/ NextOutside(s)
           \/ Overlapping(s)
           \/ VisitedTwice(s)
           \/ DataOverCeiling(s)) => ~Validate(s)

C12_Witness ==
    /\ WholeUnits
    /\ Overlapping(RawStorage)
    /\ ~ExtendsPastSize(RawStorage)
    /\ ~NextOutside(RawStorage)
    /\ ~VisitedTwice(RawStorage)
    /\ ~Validate(RawStorage)

\* ------------------------------------------------------ the tree of a buffer

\* The flat list of s has none of the defects of C12.
FlatListSound(s) ==
    ~(\/ ExtendsPastSize(s) \/ NextOutside(s) \/ Overlapping(s)
      \/ VisitedTwice(s) \/ DataOverCeiling(s))

\* The composites among the nodes of the flat list.
Composites(s) ==
    { n \in Walked(s) : n + 1 \in DOMAIN s /\ IS_COMPOSITE_TYPE(m_type(s, n)) }

\* The declared first child of the composite p is a hidden node of the flat
\* list.
FirstChildSound(s, p) ==
    LET child == p + DATA_OFFSET(m_cchName(s, p))
    IN child \in Walked(s) /\ child + 1 \in DOMAIN s
          /\ m_type(s, child) = JsonHidden

\* The tree walk over a buffer whose flat list is sound: the root, then for
\* each composite its declared first child and the nodes nextIndex leads to
\* until lastChildIndex, composites entered as they are met.  `met` lists the
\* indexes in the order of the walk; the walk stops (`stop`) at an index that
\* is no node of the flat list or was met before, and at a first child that
\* is not hidden.
Meet(s, r, n) ==
    [met |-> Append(r.met, n),
     stop |-> n \notin Walked(s) \/ n \in SeqToSet(r.met)]

RECURSIVE Enter(_, _, _)
RECURSIVE Along(_, _, _, _)

Along(s, r, parent, child) ==
    IF r.stop \/ child = m_lastChildIndex(s, parent) THEN r
    ELSE LET next == m_nextIndex(s, child)
             r1 == Meet(s, r, next)
         IN IF r1.stop THEN r1
            ELSE IF IS_COMPOSITE_TYPE(m_type(s, next))
            THEN Along(s, Enter(s, r1, next), parent, next)
            ELSE Along(s, r1, parent, next)

Enter(s, r, parent) ==
    LET child == parent + DATA_OFFSET(m_cchName(s, parent))
        r1 == Meet(s, r, child)
    IN IF r1.stop THEN r1
       ELSE IF m_type(s, child) # JsonHidden THEN [r1 EXCEPT !.stop = TRUE]
       ELSE Along(s, r1, parent, child)

TreeWalk(s) ==
    IF IS_COMPOSITE_TYPE(m_type(s, 0))
    THEN Enter(s, [met |-> <<0>>, stop |-> FALSE], 0)
    ELSE [met |-> <<0>>, stop |-> FALSE]

\* The walk stopped at a node it had met before.
ReachedTwice(s) ==
    LET r == TreeWalk(s)
    IN r.stop /\ r.met[Len(r.met)] \in SeqToSet(SubSeq(r.met, 1, Len(r.met) - 1))

\* The composites the walk has entered.
Entered(s) == Composites(s) \cap SeqToSet(TreeWalk(s).met)

\* C13, as stated: Validate throws "corrupt data" on every buffer with a
\* composite node whose declared first child, at parent +
\* DATA_OFFSET(m_cchName), is not a hidden node that the first pass marked
\* as a head.
C13_AsClaimed ==
    WholeUnits /\ FlatListSound(RawStorage) =>
       ((\E p \in Composites(RawStorage) : ~FirstChildSound(RawStorage, p))
           => ~Validate(RawStorage))

\* C13, for the composites the tree walk enters: Validate throws "corrupt
\* data" when the declared first child of such a composite is not a hidden
\* head, and when the walk reaches a head a second time.
C13_TreeWalk ==
    WholeUnits /\ FlatListSound(RawStorage) =>
       ((\/ \E p \in Entered(RawStorage) : ~FirstChildSound(RawStorage, p)
         \/ ReachedTwice(RawStorage))
           => ~Validate(RawStorage))

C13_Witness ==
    /\ WholeUnits
    /\ FlatListSound(RawStorage)
    /\ m_type(RawStorage, 0) = JsonObject
    /\ m_cchName(RawStorage, 0) = 0
    /\ \E p \in Entered(RawStorage) : ~FirstChildSound(RawStorage, p)
    /\ ~Validate(RawStorage)

\* C14: Validate accepts a buffer that is not empty only if the node at
\* index 0 has name length 0 and type JsonObject; ValidateData accepts the
\* empty buffer, on which the validator is not run.
C14_Root ==
    /\ WholeUnits /\ Validate(RawStorage) =>
          m_cchName(RawStorage, 0) = 0 /\ m_type(RawStorage, 0) = JsonObject
    /\ Size(pbRawData) = 0 =>
          /\ ValidateData(RawStorage)
          /\ JsonBuilderRaw(pbRawData, 0, TRUE).ok

\* The bytes of a builder whose root has been given another type or a name
\* length, with a flat list that is sound.
C14_Witness ==
    /\ WholeUnits
    /\ FlatListSound(RawStorage)
    /\ RawStorage[0] = m_storage[0]
    /\ \/ m_type(RawStorage, 0) \in { JsonHidden, JsonArray }
       \/ m_cchName(RawStorage, 0) # 0
    /\ ~Validate(RawStorage)

\* C15: on every buffer, sound or corrupt, Validate reads a unit of the
\* buffer only after UpdateMap has checked the index of that unit against
\* the size and marked it; it reads no unit at an index >= size.
C15_ReadsChecked ==
    WholeUnits =>
       /\ ~ValidateRun(RawStorage).oob
       /\ ~ValidateRun(RawStorage).unchecked

\* Validate has thrown on a buffer with a nextIndex, a name or a payload
\* that leads behind the end of the buffer.
C15_Witness ==
    /\ WholeUnits
    /\ NextOutside(RawStorage) \/ ExtendsPastSize(RawStorage)
    /\ ~ValidateRun(RawStorage).ok
    /\ ~ValidateRun(RawStorage).oob

\* C16: Validate comes to an end on every buffer, by returning or by
\* throwing "corrupt data": each turn of its loops marks a unit that was not
\* marked so before, so a run takes no more than two turns per unit, which
\* is the fuel a run starts with.
C16_Terminates ==
    WholeUnits => ~ValidateRun(RawStorage).spin

\* Validate has thrown on a buffer whose nextIndex links lead back to a node
\* other than the root.
C16_Witness ==
    /\ WholeUnits
    /\ VisitedTwice(RawStorage)
    /\ ~ValidateRun(RawStorage).ok
    /\ ~ValidateRun(RawStorage).spin

\* ------------------------------------------------ the reads of the queries

\* A run of a query over the arena s: oob is TRUE once the run has read a
\* unit at an index that is not below the size, spin once its loop has taken
\* more turns than s has units.
Quiet == [oob |-> FALSE, spin |-> FALSE]

Touch(s, r, units) ==
    IF units \subseteq DOMAIN s THEN r ELSE [r EXCEPT !.oob = TRUE]

\* The units of the name of the node at index.
NameUnits(s, index) ==
    (index + SizeofJsonValue \div StorageSize)
       ..(index + DATA_OFFSET(m_cchName(s, index)) - 1)

\* The loop of count (name = <<>>, find = FALSE) and of FindImpl (find =
\* TRUE) over the children from index to lastIndex.
RECURSIVE ChildrenRun(_, _, _, _, _, _, _)
ChildrenRun(s, r, index, lastIndex, find, name, fuel) ==
    LET r1 == Touch(s, r, { index + 1 })
        r2 == IF find /\ m_type(s, index) # JsonHidden
              THEN Touch(s, r1, NameUnits(s, index)) ELSE r1
    IN IF r1.oob THEN r1
       ELSE IF r2.oob THEN r2
       ELSE IF find /\ m_type(s, index) # JsonHidden /\ Name(s, index) = name
       THEN r2
       ELSE IF index = lastIndex THEN r2
       ELSE IF fuel = 0 THEN [r2 EXCEPT !.spin = TRUE]
       ELSE LET r3 == Touch(s, r2, { index })
            IN IF r3.oob THEN r3
               ELSE ChildrenRun(s, r3, m_nextIndex(s, index), lastIndex, find,
                                name, fuel - 1)

\* count(itParent) and FindImpl(parentIndex, name), from the test of the
\* parent to the end of the loop.
ParentRun(s, itParent, find, name) ==
    LET r1 == Touch(s, Quiet, { itParent + 1 })
        r2 == Touch(s, r1, { itParent + 2 })
    IN IF Size(s) = 0 THEN Quiet
       ELSE IF r1.oob \/ ~IS_COMPOSITE_TYPE(m_type(s, itParent)) THEN r1
       ELSE IF r2.oob \/ FirstChild(s, itParent) = LastChild(s, itParent) THEN r2
       ELSE LET index == FirstChild(s, itParent)
                r3 == Touch(s, r2, { index })
            IN IF r3.oob THEN r3
               ELSE ChildrenRun(s, r3, m_nextIndex(s, index),
                                LastChild(s, itParent), find, name, Size(s))

countRun(s, itParent) == ParentRun(s, itParent, FALSE, <<>>)
FindImplRun(s, parentIndex, name) == ParentRun(s, parentIndex, TRUE, name)

\* NextIndex(index)
RECURSIVE NextIndexRun(_, _, _, _)
NextIndexRun(s, r, index, fuel) ==
    LET r1 == Touch(s, r, { index })
    IN IF r1.oob THEN r1
       ELSE LET next == m_nextIndex(s, index)
                r2 == Touch(s, r1, { next + 1 })
            IN IF r2.oob \/ m_type(s, next) # JsonHidden THEN r2
               ELSE IF fuel = 0 THEN [r2 EXCEPT !.spin = TRUE]
               ELSE NextIndexRun(s, r2, next, fuel - 1)

\* cbegin(itParent) (last = FALSE) and cend(itParent) (last = TRUE)
EdgeRun(s, itParent, last) ==
    LET r1 == Touch(s, Quiet, { itParent + 1 })
        r2 == Touch(s, r1, { itParent + 2 })
    IN IF Size(s) = 0 THEN Quiet
       ELSE IF r1.oob \/ ~IS_COMPOSITE_TYPE(m_type(s, itParent)) THEN r1
       ELSE IF ~last THEN NextIndexRun(s, r1, FirstChild(s, itParent), Size(s))
       ELSE IF r2.oob THEN r2
       ELSE NextIndexRun(s, r2, LastChild(s, itParent), Size(s))

cbeginOfRun(s, itParent) == EdgeRun(s, itParent, FALSE)
cendOfRun(s, itParent) == EdgeRun(s, itParent, TRUE)

\* The node at index n, with its name and payload, ends within the buffer.
InBounds(s, n) ==
    /\ n + 1 \in DOMAIN s
    /\ \/ m_type(s, n) = JsonHidden
       \/ /\ n + 2 \in DOMAIN s
          /\ n + DATA_OFFSET(m_cchName(s, n)) <= Size(s)
          /\ IS_NORMAL_TYPE(m_type(s, n)) =>
                n + DATA_OFFSET(m_cchName(s, n))
                   + (m_cbData(s, n) + StorageSize - 1) \div StorageSize <= Size(s)

CleanRun(r) == ~r.oob /\ ~r.spin

\* C17: when Validate has accepted a buffer, every node the tree walk
\* reaches from the root lies within the buffer and is reached once, and on
\* every composite among them count, find, begin(parent) and end(parent)
\* come to an end and read no unit at an index >= size.
C17_ValidatedTree ==
    WholeUnits /\ Validate(RawStorage) =>
       LET s == RawStorage
           walk == TreeWalk(s)
       IN /\ \A n \in Walked(s) : n + 2 <= Size(s)
          /\ ~walk.stop
          /\ NoDuplicates(walk.met)
          /\ \A n \in SeqToSet(walk.met) : InBounds(s, n)
          /\ \A p \in Entered(s) :
                /\ CleanRun(countRun(s, p))
                /\ CleanRun(cbeginOfRun(s, p))
                /\ CleanRun(cendOfRun(s, p))
                /\ \A name \in QueryNames : CleanRun(FindImplRun(s, p, name))

\* Validate has accepted bytes that are not those of the builder, with a
\* parent that has a child and a hidden node under the root.
C17_Witness ==
    /\ WholeUnits
    /\ pbRawData # buffer_data(m_storage)
    /\ Validate(RawStorage)
    /\ Cardinality(Entered(RawStorage)) > 1
    /\ Len(TreeWalk(RawStorage).met) > 4

\* C18: the name and the payload stored for a value are the bytes the
\* caller's views designated when the insert began, also when a view points
\* into the arena of the builder and the insert moves the arena to a new
\* allocation.
C18_GrowthAliasing ==
    \A n \in issued :
       /\ Name(m_storage, n) = given[n].name
       /\ Data(m_storage, n) = given[n].data

\* A value has been added from views into the arena by an insert that moved
\* the arena, after an insert from such views that did not move it.
C18_Witness ==
    /\ \E n \in issued :
          /\ given[n].inside
          /\ given[n].moved
          /\ Len(given[n].name) > 0
          /\ Len(given[n].data) > 1
          /\ Name(m_storage, n) = given[n].name
          /\ Data(m_storage, n) = given[n].data
    /\ \E n \in issued : given[n].inside /\ ~given[n].moved

\* No m_nextIndex of a node of the flat list of s and no m_lastChildIndex of
\* a composite among them refers to index.
NoLinkTo(s, index) ==
    \A n \in SeqToSet(FlatList(s)) \cup {0} :
       /\ m_nextIndex(s, n) # index
       /\ IS_COMPOSITE_TYPE(m_type(s, n)) => m_lastChildIndex(s, n) # index

\* The arena a commit of the staged insert has when the node is written and
\* not yet linked.
StagedWrite ==
    CommitWrite(m_storage, staged.name, staged.type, ValueOf(staged.cbData),
                staged.expectedData)

\* C19: a step of an insert that throws leaves the arena as it was, with
\* its size, so that no m_nextIndex and no m_lastChildIndex refers to the
\* new node and every parent has the children it had; and in a commit the
\* node is written, payload included, before any link refers to it.
C19_FailedInsert ==
    [][/\ thrown' # "none" =>
             /\ Size(m_storage') = Size(m_storage)
             /\ m_storage' = m_storage
             /\ Size(m_storage) # 0 =>
                   /\ NoLinkTo(m_storage', Size(m_storage))
                   /\ \A p \in Iterators :
                         IS_COMPOSITE_TYPE(m_type(m_storage, p)) =>
                            ChildChain(m_storage', p) = ChildChain(m_storage, p)
             /\ issued' = issued
       /\ staged # NoStage /\ ~DataTooLarge(staged.cbData) =>
             /\ NoLinkTo(StagedWrite, Size(m_storage))
             /\ Data(StagedWrite, Size(m_storage)) = staged.expectedData
             /\ Name(StagedWrite, Size(m_storage)) = staged.expectedName]_vars

\* _newValueCommit has thrown bad_alloc for a builder that holds values.
C19_Witness ==
    /\ thrown = "bad_alloc"
    /\ staged = NoStage
    /\ issued # {}
    /\ m_capacity > MinCapacity

\* ------------------------------------------------------------ size limits

\* The sizes an arena may have when an insert is called: the size it has,
\* and sizes near the end of the range of the type unsigned.
ArenaSizes ==
    { UnitOf(Size(m_storage)), UnitOf(0),
      << 0, 0, 0, 128 >>, << 0, 0, 0, 196 >>, << 253, 255, 255, 195 >>,
      << 252, 255, 255, 255 >>, << 254, 255, 255, 255 >> }

\* The lengths of the names and the sizes of the payloads of the inserts.
LimitNameSizes == { 0, 1, 5, NameMax, NameMax + 1 }
LimitPayloadSizes ==
    { UnitOf(0), UnitOf(1), UnitOf(29), << 0, 0, 0, DataMaxTopByte >>,
      DataOverMax, << 255, 255, 255, 255 >> }

\* The sum of three values of the type unsigned does not fit the type.
Wraps(a, b, c) ==
    Hi16(a) + Hi16(b) + Hi16(c)
       + (Lo16(a) + Lo16(b) + Lo16(c)) \div HalfRange >= HalfRange

\* The insert is over a limit: the name is longer than NameMax, the payload
\* is larger than DataMax, or the size of the arena with the new node (and
\* with the root, when the arena is empty) does not fit the index.
OverLimit(size, cchName, cbData) ==
    \/ cchName > NameMax
    \/ DataTooLarge(cbData)
    \/ Wraps(IF size = UnitOf(0) THEN UnitOf(RootSize) ELSE size,
             UnitOf(DATA_OFFSET(cchName)), UnitOf(DataUnits(cbData)))

\* What the two steps of an insert throw: NewValueInit with the hint, and
\* then _newValueCommit in the arena NewValueInit has left.
StagedThrows(size, cchName, cbDataHint, cbData) ==
    IF NewValueInitThrows(size, cchName, cbDataHint) # "none"
    THEN NewValueInitThrows(size, cchName, cbDataHint)
    ELSE newValueCommitThrows(IF size = UnitOf(0) THEN UnitOf(RootSize) ELSE size,
                              cchName, JsonBool, cbData)

\* The arena holds the children the completed inserts have added, and no
\* other.
OnlyCompleted ==
    /\ Size(m_storage) = 0 => issued = {}
    /\ Size(m_storage) # 0 =>
          \A p \in Iterators :
             IS_COMPOSITE_TYPE(m_type(m_storage, p)) =>
                ChildChain(m_storage, p) = reference[p]

\* C20 as stated, for both inserts: an insert over a limit is refused with
\* std::length_error by NewValueInit / _newValueCommit and by CreateValue,
\* and adds no node.
C20_AsClaimed ==
    /\ \A size \in ArenaSizes, cchName \in LimitNameSizes,
          cbData \in LimitPayloadSizes :
          OverLimit(size, cchName, cbData) =>
             /\ StagedThrows(size, cchName, cbData, cbData) = "length_error"
             /\ StagedThrows(size, cchName, UnitOf(0), cbData) = "length_error"
             /\ CreateValueThrows(size, cchName, JsonBool, cbData) = "length_error"
    /\ thrown = "length_error" => OnlyCompleted

\* C20: an insert whose name is longer than NameMax, whose payload is larger
\* than DataMax or whose arena size would wrap is refused before the arena
\* is resized, by NewValueInit / _newValueCommit with std::length_error and
\* by CreateValue with an exception, and after a refusal the parents have
\* the children of the completed inserts only.
C20_SizeLimits ==
    /\ \A size \in ArenaSizes, cchName \in LimitNameSizes,
          cbData \in LimitPayloadSizes :
          OverLimit(size, cchName, cbData) =>
             /\ StagedThrows(size, cchName, cbData, cbData) = "length_error"
             /\ StagedThrows(size, cchName, UnitOf(0), cbData) = "length_error"
             /\ CreateValueThrows(size, cchName, JsonBool, cbData) # "none"
    /\ thrown = "length_error" => OnlyCompleted /\ staged = NoStage

\* An insert into a builder that holds values has been refused with
\* std::length_error, and an insert of a short name and a small payload
\* into an arena of the samples is refused because the index would wrap.
C20_Witness ==
    /\ thrown = "length_error"
    /\ issued # {}
    /\ \E size \in ArenaSizes :
          /\ OverLimit(size, 1, UnitOf(1))
          /\ StagedThrows(size, 1, UnitOf(0), UnitOf(1)) = "length_error"

\* ------------------------------------------------- calls with any iterator

\* A const_iterator as a caller passes it: m_pContainer ("this": this
\* builder, "other": another builder, "null": a default-constructed
\* iterator) and m_index.
Iter(container, index) == [container |-> container, index |-> index]

\* A build compiles assert() in (ndebug = FALSE) or out (ndebug = TRUE).
Builds == BOOLEAN

\* ValidateIterator without the test of m_pContainer.
ValidateIteratorAnyContainer(s, it, ndebug) == IF ~ndebug /\ it.index # 0 /\ it.index >= Size(s) THEN "terminate" ELSE "pass"

\* ValidateIterator(it): the assert of the index, then the test of the
\* container.
ValidateIterator(s, it, ndebug) ==
    IF ~ndebug /\ ~(it.index = 0 \/ it.index < Size(s)) THEN "terminate"
    ELSE IF it.container # "this" THEN "terminate"
    ELSE "pass"

\* m_storage[index]: CheckOffset asserts index < m_size; without the assert
\* the access goes outside the size of the arena.
CheckOffset(s, index, ndebug) ==
    IF index < Size(s) THEN "pass"
    ELSE IF ~ndebug THEN "terminate"
    ELSE "undefined"

\* ValidateParentIterator without the test of the type.
ValidateParentIteratorAnyType(s, index, ndebug) == CheckOffset(s, index, ndebug)

\* ValidateParentIterator(index)
ValidateParentIterator(s, index, ndebug) ==
    IF CheckOffset(s, index, ndebug) # "pass" THEN CheckOffset(s, index, ndebug)
    ELSE IF ~IS_COMPOSITE_TYPE(m_type(s, index)) THEN "terminate"
    ELSE "pass"

\* How a call ends that reads the arena as the run r tells: it returns, or
\* it has read outside the size of the arena.
RunEnd(r, ndebug) ==
    IF ~r.oob THEN "return" ELSE IF ~ndebug THEN "terminate" ELSE "undefined"

\* erase(itValue)
eraseCall(s, it, ndebug) ==
    IF ValidateIterator(s, it, ndebug) # "pass" THEN "terminate"
    ELSE IF it.index = 0 THEN "terminate"
    ELSE IF CheckOffset(s, it.index, ndebug) # "pass"
    THEN CheckOffset(s, it.index, ndebug)
    ELSE "return"

\* erase(itBegin, itEnd)
eraseRangeCall(s, itBegin, itEnd, ndebug) ==
    IF ValidateIterator(s, itBegin, ndebug) # "pass" THEN "terminate"
    ELSE IF ValidateIterator(s, itEnd, ndebug) # "pass" THEN "terminate"
    ELSE IF itBegin.index = itEnd.index THEN "return"
    ELSE IF itBegin.index = 0 THEN "terminate"
    ELSE IF CheckOffset(s, itBegin.index, ndebug) # "pass"
    THEN CheckOffset(s, itBegin.index, ndebug)
    ELSE IF eraseRangeReaches(s, itBegin.index, itEnd.index, Size(s))
    THEN "return"
    ELSE "terminate"

\* count(itParent), begin(itParent), end(itParent), find(itParent, name)
countCall(s, it, ndebug) ==
    IF ValidateIterator(s, it, ndebug) # "pass" THEN "terminate"
    ELSE RunEnd(countRun(s, it.index), ndebug)
beginCall(s, it, ndebug) ==
    IF ValidateIterator(s, it, ndebug) # "pass" THEN "terminate"
    ELSE RunEnd(cbeginOfRun(s, it.index), ndebug)
endCall(s, it, ndebug) ==
    IF ValidateIterator(s, it, ndebug) # "pass" THEN "terminate"
    ELSE RunEnd(cendOfRun(s, it.index), ndebug)
findCall(s, it, name, ndebug) ==
    IF ValidateIterator(s, it, ndebug) # "pass" THEN "terminate"
    ELSE RunEnd(FindImplRun(s, it.index, name), ndebug)

\* AddValue(front, itParent, ...) of src/JsonBuilder.cpp, to the call of
\* CreateValue: ValidateIterator, EnsureRootExists, ValidateParentIterator.
AddValueCall(s, it, ndebug) ==
    IF ValidateIterator(s, it, ndebug) # "pass" THEN "terminate"
    ELSE IF ValidateParentIterator(EnsureRootExists(s), it.index, ndebug) # "pass"
    THEN ValidateParentIterator(EnsureRootExists(s), it.index, ndebug)
    ELSE "return"

\* NewValueInitImpl(front, itParent, ...), to the reservation: in an empty
\* builder the parent must be the root, in any other ValidateParentIterator
\* decides.
NewValueInitCall(s, it, ndebug) ==
    IF ValidateIterator(s, it, ndebug) # "pass" THEN "terminate"
    ELSE IF Size(s) = 0
    THEN (IF it.index # 0 THEN "terminate" ELSE "return")
    ELSE IF ValidateParentIterator(s, it.index, ndebug) # "pass"
    THEN ValidateParentIterator(s, it.index, ndebug)
    ELSE "return"

\* Splice(front, itOldParent, itNewParent, pred), to the loop.
SpliceCall(s, itOldParent, itNewParent, ndebug) ==
    IF ValidateIterator(s, itOldParent, ndebug) # "pass" THEN "terminate"
    ELSE IF ValidateIterator(s, itNewParent, ndebug) # "pass" THEN "terminate"
    ELSE IF Size(s) = 0 THEN "return"
    ELSE IF CheckOffset(s, itOldParent.index, ndebug) # "pass"
    THEN CheckOffset(s, itOldParent.index, ndebug)
    ELSE IF ~IS_COMPOSITE_TYPE(m_type(s, itOldParent.index)) THEN "return"
    ELSE IF ValidateParentIterator(s, itNewParent.index, ndebug) # "pass"
    THEN ValidateParentIterator(s, itNewParent.index, ndebug)
    ELSE "return"

\* ------------------------------------------------------ capacity and clear

\* A value of the type size_t of a build with 64-bit pointers, as two
\* values of 32 bits.
SizeT(high, low) == [high |-> high, low |-> low]

\* u * 4 as a size_t, and the value of 32 bits a size_t divided by 4
\* converts to (static_cast<unsigned>).
Times4(u) ==
    SizeT(UnitOf(u[4] \div (ByteRange \div StorageSize)),
          << (u[1] * StorageSize) % ByteRange,
             (u[2] * StorageSize + u[1] \div (ByteRange \div StorageSize)) % ByteRange,
             (u[3] * StorageSize + u[2] \div (ByteRange \div StorageSize)) % ByteRange,
             (u[4] * StorageSize + u[3] \div (ByteRange \div StorageSize)) % ByteRange >>)
Quarter(n) ==
    << n.low[1] \div StorageSize + (n.low[2] % StorageSize) * (ByteRange \div StorageSize),
       n.low[2] \div StorageSize + (n.low[3] % StorageSize) * (ByteRange \div StorageSize),
       n.low[3] \div StorageSize + (n.low[4] % StorageSize) * (ByteRange \div StorageSize),
       n.low[4] \div StorageSize + (n.high[1] % StorageSize) * (ByteRange \div StorageSize) >>

\* a > b and a + b (b of 32 bits), on values of the type size_t.
GreaterSizeT(a, b) ==
    Less32(b.high, a.high) \/ (a.high = b.high /\ Less32(b.low, a.low))
AddSizeT(a, b) ==
    SizeT(IF Less32(Add32(a.low, b), a.low) THEN Add32(a.high, UnitOf(1)) ELSE a.high,
          Add32(a.low, b))

\* PodVector::max_size(): m_maxSize, 0xfffffffe; buffer_max_size().
m_maxSize == Unit32(MaxSizeHigh, MaxSizeLow)
buffer_max_size == Times4(m_maxSize)

\* The allocations of more units than this fail: the memory is bounded.
MaxAllocation == 127

\* PodVector::reserve(minCapacity) / GrowTo with the capacity it has: what
\* it throws and the capacity afterwards.  fail: malloc returns nullptr.
reserve(capacity, minCapacity, fail) ==
    IF ~Less32(UnitOf(capacity), minCapacity)
    THEN [thrown |-> "none", capacity |-> capacity]
    ELSE IF Less32(m_maxSize, minCapacity)
    THEN [thrown |-> "length_error", capacity |-> capacity]
    ELSE IF fail \/ GetNewCapacity(ValueOf(minCapacity), Saturated) > MaxAllocation
    THEN [thrown |-> "bad_alloc", capacity |-> capacity]
    ELSE [thrown |-> "none",
          capacity |-> GetNewCapacity(ValueOf(minCapacity), Saturated)]

\* buffer_reserve without the test against buffer_max_size().
buffer_reserveUnchecked(capacity, cbMinimumCapacity, fail) == reserve(capacity, Quarter(AddSizeT(cbMinimumCapacity, UnitOf(StorageSize - 1))), fail)

\* JsonBuilder::buffer_reserve(cbMinimumCapacity)
buffer_reserveOutcome(capacity, cbMinimumCapacity, fail) ==
    IF GreaterSizeT(cbMinimumCapacity, buffer_max_size)
    THEN [thrown |-> "length_error", capacity |-> capacity]
    ELSE reserve(capacity,
                 Quarter(AddSizeT(cbMinimumCapacity, UnitOf(StorageSize - 1))),
                 fail)

\* The iterators a caller may pass: those of this builder that refer to a
\* node, those it holds from before a clear() that are past the end of the
\* arena, those of another builder and a default-constructed one.
CallerIterators ==
    { Iter("this", i) : i \in {0} \cup issued
                              \cup { k \in stale : k >= Size(m_storage) } }
       \cup { Iter("other", i) : i \in { 0, RootSize } }
       \cup { Iter("null", 0) }

\* The sizes a caller passes to buffer_reserve.
ReserveSizes ==
    { SizeT(UnitOf(0), UnitOf(k)) : k \in { 0, 1, 2, 5, 61, 200, 509 } }
       \cup { buffer_max_size, AddSizeT(buffer_max_size, UnitOf(1)),
              SizeT(Unit32(HalfRange - 1, HalfRange - 1),
                    Unit32(HalfRange - 1, HalfRange - 1)) }

\* The addresses malloc returns to this caller.
CallAddresses == { 1, MaxAddress }

\* The program has ended, or has gone on outside the arena.
Ended == thrown \in { "terminate", "undefined" }

\* AddValue(front, itParent, name, type, cbData, pbData) with any iterator.
\* fail: the allocation that fails (1: of the root, 2: of the value).
AddValueAny(front, it, name, type, ndebug, newData, fail) ==
    LET s0 == EnsureRootExists(m_storage)
        root == reserve(m_capacity, UnitOf(Size(s0)), fail = 1)
        s1 == AddValueStorage(m_storage, front, it.index, name, type,
                              Len(DataOf(type)), DataOf(type))
        value == reserve(root.capacity, UnitOf(Size(s1)), fail = 2)
        newIndex == Size(s0)
    IN /\ newData # m_data
       /\ IF ValidateIterator(m_storage, it, ndebug) # "pass"
          THEN /\ thrown' = "terminate"
               /\ UNCHANGED <<m_storage, issued, given, reference, m_capacity,
                              m_data>>
          ELSE IF root.thrown # "none"
          THEN /\ thrown' = root.thrown
               /\ UNCHANGED <<m_storage, issued, given, reference, m_capacity,
                              m_data>>
          ELSE IF AddValueCall(m_storage, it, ndebug) # "return"
          THEN /\ thrown' = AddValueCall(m_storage, it, ndebug)
               /\ m_storage' = s0
               /\ m_capacity' = root.capacity
               /\ m_data' = IF root.capacity # m_capacity THEN newData ELSE m_data
               /\ UNCHANGED <<issued, given, reference>>
          ELSE IF value.thrown # "none"
          THEN /\ thrown' = value.thrown
               /\ m_storage' = s0
               /\ m_capacity' = root.capacity
               /\ m_data' = IF root.capacity # m_capacity THEN newData ELSE m_data
               /\ UNCHANGED <<issued, given, reference>>
          ELSE /\ thrown' = "none"
               /\ m_storage' = s1
               /\ m_capacity' = value.capacity
               /\ m_data' = IF value.capacity # m_capacity THEN newData ELSE m_data
               /\ issued' = issued \cup {newIndex}
               /\ given' = [n \in issued \cup {newIndex} |->
                              IF n = newIndex
                              THEN [parent |-> it.index, name |-> name,
                                    type |-> type, data |-> DataOf(type)]
                              ELSE given[n]]
               /\ reference' = [p \in DOMAIN reference \cup {newIndex} |->
                                  IF p = newIndex THEN <<>>
                                  ELSE IF p = it.index
                                       THEN (IF front
                                             THEN <<newIndex>> \o reference[p]
                                             ELSE Append(reference[p], newIndex))
                                       ELSE reference[p]]
    /\ UNCHANGED <<erased, splices, pbRawData, staged, stale>>

\* erase(itValue) with any iterator.
eraseAny(it, ndebug) ==
    /\ IF eraseCall(m_storage, it, ndebug) # "return"
       THEN /\ thrown' = eraseCall(m_storage, it, ndebug)
            /\ UNCHANGED <<m_storage, erased>>
       ELSE /\ thrown' = "none"
            /\ m_storage' = eraseStorage(m_storage, it.index)
            /\ erased' = erased \cup {it.index}
    /\ UNCHANGED <<issued, given, reference, splices, pbRawData, m_capacity,
                   m_data, staged, stale>>

\* A clear() that leaves m_size as it is.
clearStorageKeeps(s) == s

\* PodVector::clear(): m_size = 0.
clearStorage(s) == [i \in {} |-> s[i]]

\* clear(), the caller keeping the iterators it holds.
clearHeld ==
    /\ ~Ended
    /\ m_storage' = clearStorage(m_storage)
    /\ issued' = {}
    /\ given' = [n \in {} |-> 0]
    /\ reference' = [p \in {0} |-> <<>>]
    /\ erased' = {}
    /\ stale' = stale \cup issued
    /\ thrown' = "none"
    /\ UNCHANGED <<splices, pbRawData, m_capacity, m_data, staged>>

\* buffer_reserve(cbMinimumCapacity)
buffer_reserve(cbMinimumCapacity, newData, fail) ==
    LET out == buffer_reserveOutcome(m_capacity, cbMinimumCapacity, fail)
    IN /\ newData # m_data
       /\ thrown' = out.thrown
       /\ m_capacity' = out.capacity
       /\ m_data' = IF out.capacity # m_capacity THEN newData ELSE m_data
       /\ UNCHANGED <<m_storage, issued, given, reference, erased, splices,
                      pbRawData, staged, stale>>

\* A caller that inserts, erases, clears and reserves, with the iterators it
\* holds, in a build with assert() or without.
NextCalls ==
    \/ /\ ~Ended
       /\ Cardinality(issued) < MaxCallValues
       /\ \E it \in CallerIterators, name \in NameSet, type \in TypeSet,
             ndebug \in Builds, newData \in CallAddresses, fail \in 0..2 :
             AddValueAny(FALSE, it, name, type, ndebug, newData, fail)
    \/ /\ ~Ended
       /\ \E it \in CallerIterators, ndebug \in Builds : eraseAny(it, ndebug)
    \/ clearHeld
    \/ /\ ~Ended
       /\ \E cbMinimumCapacity \in ReserveSizes, newData \in CallAddresses,
             fail \in BOOLEAN :
             buffer_reserve(cbMinimumCapacity, newData, fail)

SpecCalls == Init /\ [][NextCalls]_vars

\* ----------------------------------------------------- fatal preconditions

\* The nodes of the builder that are no array and no object: the leaves and
\* the erased nodes.
NoParents == { p \in issued : ~IS_COMPOSITE_TYPE(m_type(m_storage, p)) }

NotOfThis(it) == it.container # "this"
OutOfBounds(s, it) == it.index # 0 /\ it.index >= Size(s)

\* How the public operations end that take the iterator it.
CallsWith(s, it, ndebug) ==
    { eraseCall(s, it, ndebug), countCall(s, it, ndebug),
      beginCall(s, it, ndebug), endCall(s, it, ndebug),
      findCall(s, it, <<120>>, ndebug), AddValueCall(s, it, ndebug),
      NewValueInitCall(s, it, ndebug) }
       \cup { eraseRangeCall(s, it, other, ndebug) : other \in CallerIterators }
       \cup { eraseRangeCall(s, other, it, ndebug) : other \in CallerIterators }
       \cup { SpliceCall(s, it, other, ndebug) : other \in CallerIterators }
       \cup { SpliceCall(s, other, it, ndebug) : other \in CallerIterators }

\* C22 as stated: with an iterator of another builder, or with an index out
\* of bounds, every operation terminates the program, in every build.
C22_AsClaimed ==
    \A ndebug \in Builds, it \in CallerIterators :
       NotOfThis(it) \/ OutOfBounds(m_storage, it) =>
          CallsWith(m_storage, it, ndebug) = { "terminate" }

\* C22: with an iterator of another builder or of none every operation
\* terminates the program in every build; with an iterator of this builder
\* whose index is out of bounds every operation terminates the program in a
\* build with assert(); an iterator of this builder that is in bounds
\* passes ValidateIterator; no operation reports any of this by an
\* exception.
C22_IteratorChecked ==
    \A ndebug \in Builds, it \in CallerIterators :
       /\ NotOfThis(it) => CallsWith(m_storage, it, ndebug) = { "terminate" }
       /\ OutOfBounds(m_storage, it) /\ ~ndebug =>
             CallsWith(m_storage, it, ndebug) = { "terminate" }
       /\ ~NotOfThis(it) /\ ~OutOfBounds(m_storage, it) =>
             ValidateIterator(m_storage, it, ndebug) = "pass"
       /\ CallsWith(m_storage, it, ndebug)
             \subseteq { "terminate", "return", "undefined" }

\* A call has terminated the program while the caller holds an iterator of
\* this builder that is out of bounds, the builder holding a value.
C22_Witness ==
    /\ thrown = "terminate"
    /\ issued # {}
    /\ \E k \in stale : OutOfBounds(m_storage, Iter("this", k))

\* ------------------------------------------------------------ growth policy

\* The values 2^N - 1 of the type int.
PowersLessOne ==
    { 2^N - 1 : N \in 0..30 } \cup { (2^30 - 1) + 2^30 }

\* The capacities asked for and the maxima: around the floor, around the
\* powers of two, the size and the capacity of the arena, and large ones.
PolicyMinima ==
    (0..33) \cup { 63, 64, 65, 1000, 2^20, 2^30 - 1, 2^30, 2^30 + 1,
                   (2^30 - 1) + 2^30 }
       \cup { Size(m_storage), m_capacity, m_capacity + 1 }
PolicyMaxima ==
    { 0, 10, 15, 16, 31, 40, 100, 2^30, (2^30 - 1) + 2^30 }
       \cup { m_capacity, Saturated }

\* The capacity of the policy: the floor, or the smallest 2^N - 1 that is
\* not below minCapacity.
PolicyCapacity(minCapacity) ==
    IF minCapacity <= MinCapacity THEN MinCapacity
    ELSE CHOOSE c \in PowersLessOne :
            /\ minCapacity <= c
            /\ \A d \in PowersLessOne : minCapacity <= d => c <= d

CapacityCovers(capacity, n) == ~GreaterSizeT(n, Times4(UnitOf(capacity)))

\* C24: in every state, reservations made or not, the tree is what the
\* inserts have made it, and a buffer_reserve(n) called there never lowers
\* the capacity; with n <= buffer_max_size() it throws no length error and,
\* when it returns, buffer_capacity() >= n (and the capacity of a fresh
\* builder stays 0 for n = 0); with n > buffer_max_size() it throws
\* std::length_error; and a call that throws leaves the capacity as it is.
C24_Reserve ==
    /\ OnlyCompleted
    /\ \A n \in ReserveSizes, fail \in BOOLEAN :
          LET out == buffer_reserveOutcome(m_capacity, n, fail)
          IN /\ out.capacity >= m_capacity
             /\ out.thrown # "none" => out.capacity = m_capacity
             /\ IF GreaterSizeT(n, buffer_max_size)
                THEN out.thrown = "length_error"
                ELSE /\ out.thrown \in { "none", "bad_alloc" }
                     /\ out.thrown = "none" => CapacityCovers(out.capacity, n)
                     /\ n = SizeT(UnitOf(0), UnitOf(0)) /\ m_capacity = 0 =>
                           out.capacity = 0 /\ out.thrown = "none"

\* A builder that holds a value has reserved beyond what the value needs,
\* and a buffer_reserve above buffer_max_size() has thrown.
C24_Witness ==
    /\ thrown = "length_error"
    /\ issued # {}
    /\ m_capacity > MinCapacity
    /\ m_capacity > GetNewCapacity(Size(m_storage), Saturated)

\* ------------------------------------------------------------------ clear

\* The empty state: no bytes, begin() == end(), no children of the root.
EmptyState(s) ==
    /\ buffer_size(s) = 0
    /\ cbegin(s) = cend
    /\ count(s, 0) = 0

\* The root is at index 0 with its sentinel behind it, as CreateRoot and
\* EnsureRootExists make it, and every iteration delivers the nodes the
\* inserts since the last clear() have made and that are not erased, and
\* no other.
FreshTree ==
    Size(m_storage) # 0 =>
       /\ Size(m_storage) >= RootSize
       /\ \A i \in { 1, DATA_OFFSET(0) + 1 } : m_storage[i] = CreateRoot[i]
       /\ FirstChild(m_storage, 0) = DATA_OFFSET(0)
       /\ m_type(m_storage, FirstChild(m_storage, 0)) = JsonHidden
       /\ SeqToSet(IterateFrom(m_storage, cbegin(m_storage), cend, Size(m_storage)))
             = issued \ erased
       /\ \A p \in Iterators :
             IS_COMPOSITE_TYPE(m_type(m_storage, p)) =>
                IterateChildren(m_storage, p) = Visible(p)

\* C25: clear() leaves the empty state (buffer_size() == 0, begin() ==
\* end(), count(root()) == 0) and the capacity and the allocation it
\* found; CreateRoot and EnsureRootExists make the same root; and in every
\* state in which clear() is called, after earlier calls of clear() or not,
\* the root is at index 0 with its sentinel and the iterations deliver the
\* nodes inserted since the last clear(), and none from before.
C25_Clear ==
    [][clearHeld =>
          /\ EmptyState(m_storage')
          /\ m_capacity' = m_capacity
          /\ m_data' = m_data
          /\ CreateRoot = EnsureRootExists(EmptyStorage)
          /\ Size(m_storage) = 0 => EmptyState(m_storage)
          /\ FreshTree]_vars

\* After a clear() of a builder that had grown past the floor, values have
\* been inserted again, one of them where a value from before the clear()
\* was, and one of them is erased.
C25_Witness ==
    /\ stale \cap issued # {}
    /\ m_capacity > MinCapacity
    /\ erased # {}
    /\ Cardinality(issued) = MaxCallValues

\* ----------------------------------------------------------- memory usage

\* n rounded up to a multiple of 4.
RoundedUp(n) == ((n + 3) \div 4) * 4

\* The bytes of a name or of a payload of the given length.
BytesOfLength(n) == [k \in 1..n |-> 97 + k]

\* The lengths of the names and of the payloads of the inserts measured.
MeasuredNames == { 0, 1, 3, 4, 5 }
MeasuredPayloads == { 0, 1, 4, 5, 8 }

\* What an insert adds to buffer_size(): the arena after AddValue, and
\* after NewValueInit (CreateRoot in an empty builder) and _newValueCommit,
\* against the arena before.
GrowthOfAddValue(s, n, type, d) ==
    buffer_size(AddValueStorage(s, FALSE, 0, BytesOfLength(n), type, d,
                                BytesOfLength(d)))
       - buffer_size(s)
GrowthOfCommit(s, n, type, d) ==
    buffer_size(CommitWrite(IF Size(s) = 0 THEN CreateRoot ELSE s,
                            BytesOfLength(n), type, d, BytesOfLength(d)))
       - buffer_size(s)

\* What the claim charges for the node at index: 20 + name for an array or
\* object, 12 + name + data for a simple value, each rounded up.
ChargedFor(s, index) ==
    IF IS_COMPOSITE_TYPE(given[index].type)
    THEN 20 + RoundedUp(m_cchName(s, index))
    ELSE 12 + RoundedUp(m_cchName(s, index)) + RoundedUp(m_cbData(s, index))

RECURSIVE ChargedForAll(_, _)
ChargedForAll(s, nodes) ==
    IF nodes = {} THEN 0
    ELSE LET index == CHOOSE i \in nodes : TRUE
         IN ChargedFor(s, index) + ChargedForAll(s, nodes \ {index})

SizeofLongLong == 8

\* The bytes of a narrower integer widened to 64 bits: the loads of
\* uint8_t .. uint64_t and of int8_t .. int64_t into a 64-bit result.
ZeroExtended(bytes) ==
    [k \in 1..SizeofLongLong |-> IF k <= Len(bytes) THEN bytes[k] ELSE 0]
SignExtended(bytes) ==
    [k \in 1..SizeofLongLong |->
        IF k <= Len(bytes) THEN bytes[k]
        ELSE IF bytes[Len(bytes)] >= ByteRange \div 2 THEN ByteRange - 1 ELSE 0]

\* static_cast<T>(v) of a 64-bit v for an integer type T of the given size.
CastTo(v, sizeofT) == [k \in 1..sizeofT |-> v[k]]
ZeroOf(sizeofT) == [k \in 1..sizeofT |-> 0]

\* a < b for unsigned 64-bit, and for signed 64-bit integers.
LessUnsigned(a, b) ==
    \E k \in 1..SizeofLongLong :
       /\ a[k] < b[k]
       /\ \A j \in (k + 1)..SizeofLongLong : a[j] = b[j]
IsNegative(v) == v[Len(v)] >= ByteRange \div 2
LessSigned(a, b) ==
    IF IsNegative(a) # IsNegative(b) THEN IsNegative(a) ELSE LessUnsigned(a, b)

\* 0xffffffffffffffff >> (64 - sizeof(T) * 8), 1ll << (sizeof(T) * 8 - 1)
\* and -(1ll << (sizeof(T) * 8 - 1)).
AllOnesShifted(sizeofT) ==
    [k \in 1..SizeofLongLong |-> IF k <= sizeofT THEN ByteRange - 1 ELSE 0]
OneShifted(sizeofT) ==
    [k \in 1..SizeofLongLong |-> IF k = sizeofT THEN ByteRange \div 2 ELSE 0]
MinusOneShifted(sizeofT) ==
    [k \in 1..SizeofLongLong |->
        IF k < sizeofT THEN 0
        ELSE IF k = sizeofT THEN ByteRange \div 2 ELSE ByteRange - 1]

\* GetUncheckedJsonUInt / GetUncheckedJsonInt: the data of 1, 2, 4 or 8
\* bytes, widened.  Data of another size is 0 (and fails an assert).
GetUncheckedJsonUInt(s, index) ==
    IF m_cbData(s, index) \in { 1, 2, 4, 8 } THEN ZeroExtended(Data(s, index))
    ELSE ZeroOf(SizeofLongLong)
GetUncheckedJsonInt(s, index) ==
    IF m_cbData(s, index) \in { 1, 2, 4, 8 } THEN SignExtended(Data(s, index))
    ELSE ZeroOf(SizeofLongLong)

\* JsonImplementType<unsigned long long>::ConvertTo.  (The values of this
\* model are no JsonFloat.)
ConvertToUnsignedLongLong(s, index) ==
    IF m_type(s, index) = JsonUInt
    THEN [success |-> TRUE, result |-> GetUncheckedJsonUInt(s, index)]
    ELSE IF /\ m_type(s, index) = JsonInt
            /\ LessUnsigned(GetUncheckedJsonInt(s, index),
                            OneShifted(SizeofLongLong))
    THEN [success |-> TRUE, result |-> GetUncheckedJsonInt(s, index)]
    ELSE [success |-> FALSE, result |-> ZeroOf(SizeofLongLong)]

\* ConvertToJsonUInt<T>.
ConvertToJsonUInt(s, index, sizeofT) ==
    LET impl == ConvertToUnsignedLongLong(s, index)
    IN IF /\ impl.success
          /\ ~LessUnsigned(AllOnesShifted(sizeofT), impl.result)
       THEN [success |-> TRUE, result |-> CastTo(impl.result, sizeofT)]
       ELSE [success |-> FALSE, result |-> ZeroOf(sizeofT)]

\* JsonImplementType<signed long long>::ConvertTo.
ConvertToSignedLongLong(s, index) ==
    IF m_type(s, index) = JsonInt
    THEN [success |-> TRUE, result |-> GetUncheckedJsonInt(s, index)]
    ELSE IF /\ m_type(s, index) = JsonUInt
            /\ ~IsNegative(GetUncheckedJsonUInt(s, index))
    THEN [success |-> TRUE, result |-> GetUncheckedJsonUInt(s, index)]
    ELSE [success |-> FALSE, result |-> ZeroOf(SizeofLongLong)]

\* ConvertToJsonInt<T> without the test of the range of T.
ConvertToJsonIntAnyRange(s, index, sizeofT) == [success |-> ConvertToSignedLongLong(s, index).success, result |-> CastTo(ConvertToSignedLongLong(s, index).result, sizeofT)]

\* ConvertToJsonInt<T>.
ConvertToJsonInt(s, index, sizeofT) ==
    LET impl == ConvertToSignedLongLong(s, index)
    IN IF /\ impl.success
          /\ \/ sizeofT = SizeofLongLong
             \/ /\ LessSigned(impl.result, OneShifted(sizeofT))
                /\ ~LessSigned(impl.result, MinusOneShifted(sizeofT))
       THEN [success |-> TRUE, result |-> CastTo(impl.result, sizeofT)]
       ELSE [success |-> FALSE, result |-> ZeroOf(sizeofT)]

\* The integer types T of ConvertTo<T>: char, short, int and long (of 4 or
\* of 8 bytes), which go through the templates, and long long, which has
\* its own ConvertTo.
IntegerTypes ==
    [signed : BOOLEAN, size : { 1, 2, 4, 8 }, longlong : { FALSE }]
       \cup [signed : BOOLEAN, size : { SizeofLongLong }, longlong : { TRUE }]

\* JsonValue::ConvertTo<T>(result) of the node at index.
ConvertTo(s, index, T) ==
    IF T.longlong
    THEN (IF T.signed THEN ConvertToSignedLongLong(s, index)
          ELSE ConvertToUnsignedLongLong(s, index))
    ELSE IF T.signed THEN ConvertToJsonInt(s, index, T.size)
    ELSE ConvertToJsonUInt(s, index, T.size)

\* The integers of 1, 2 and 4 bytes that callers store, and all the data
\* they store: those, those widened to 8 bytes, 2^63 - 1 and 2^63.
NarrowData ==
    { <<0>>, <<127>>, <<128>>, <<255>>,
      <<255, 0>>, <<0, 1>>, <<255, 127>>, <<0, 128>>, <<127, 255>>,
      <<128, 255>>, <<255, 255>>,
      <<255, 255, 0, 0>>, <<0, 0, 1, 0>>, <<255, 255, 255, 127>>,
      <<0, 0, 0, 128>>, <<255, 127, 255, 255>>, <<0, 128, 255, 255>>,
      <<255, 255, 255, 255>> }
ScalarData ==
    NarrowData
       \cup { ZeroExtended(b) : b \in NarrowData }
       \cup { SignExtended(b) : b \in NarrowData }
       \cup { <<255, 255, 255, 255, 255, 255, 255, 127>>,
              <<0, 0, 0, 0, 0, 0, 0, 128>>,
              <<255, 255, 255, 127, 255, 255, 255, 255>> }
ScalarTypes == { JsonUInt, JsonInt }

\* A caller that stores integers, booleans and arrays, erases and clears.
NextScalar ==
    \/ /\ Cardinality(issued) < MaxScalarValues
       /\ \E name \in NameSet, type \in ScalarTypes, data \in ScalarData :
             AddValue(FALSE, 0, name, type, Len(data), data)
    \/ /\ Cardinality(issued) < MaxScalarValues
       /\ \E name \in NameSet, type \in TypeSet :
             AddValue(FALSE, 0, name, type, Len(DataOf(type)), DataOf(type))
    \/ \E itValue \in Iterators : erase(itValue)
    \/ clear

SpecScalar == Init /\ [][NextScalar]_vars

\* The integer a JsonInt or JsonUInt node stores: its sign and its 64 bits
\* (two's complement if negative).
StoredInteger(s, index) ==
    IF m_type(s, index) = JsonInt
    THEN [negative |-> IsNegative(Data(s, index)),
          bits |-> SignExtended(Data(s, index))]
    ELSE [negative |-> FALSE, bits |-> ZeroExtended(Data(s, index))]

\* The integer that a variable of type T holds.
IntegerOf(result, T) ==
    IF T.signed
    THEN [negative |-> IsNegative(result), bits |-> SignExtended(result)]
    ELSE [negative |-> FALSE, bits |-> ZeroExtended(result)]

\* v is one of the integers of T: 0 .. 2^w - 1 for an unsigned T of w bits,
\* -2^(w-1) .. 2^(w-1) - 1 for a signed one.
InRangeOf(v, T) ==
    /\ v.negative => T.signed
    /\ \A k \in (T.size + 1)..SizeofLongLong :
          v.bits[k] = IF v.negative THEN ByteRange - 1 ELSE 0
    /\ T.signed => (v.negative <=> v.bits[T.size] >= ByteRange \div 2)

\* C27: ConvertTo<T> for an integer type T succeeds, and sets result to the
\* stored value, exactly if the node is a JsonInt or JsonUInt whose integer
\* is in the range of T; otherwise it returns false and sets result to 0.
\* A negative JsonInt never converts to an unsigned T and a JsonUInt of
\* 2^63 or more never converts to a signed T.
C27_ConvertTo ==
    \A index \in issued, T \in IntegerTypes :
       LET r == ConvertTo(m_storage, index, T)
           integer == m_type(m_storage, index) \in { JsonInt, JsonUInt }
       IN /\ r.success <=>
                (integer /\ InRangeOf(StoredInteger(m_storage, index), T))
          /\ r.success =>
                IntegerOf(r.result, T) = StoredInteger(m_storage, index)
          /\ ~r.success => r.result = ZeroOf(T.size)
          /\ /\ m_type(m_storage, index) = JsonInt
             /\ IsNegative(Data(m_storage, index))
             /\ ~T.signed
             => ~r.success
          /\ /\ m_type(m_storage, index) = JsonUInt
             /\ m_cbData(m_storage, index) = SizeofLongLong
             /\ IsNegative(Data(m_storage, index))
             /\ T.signed
             => ~r.success

C27_Witness ==
    \E index \in issued :
       /\ m_type(m_storage, index) = JsonInt
       /\ Data(m_storage, index) = <<0, 128, 255, 255>>
       /\ ConvertTo(m_storage, index, [signed |-> TRUE, size |-> 2, longlong |-> FALSE]).success
       /\ ~ConvertTo(m_storage, index, [signed |-> TRUE, size |-> 1, longlong |-> FALSE]).success
       /\ ~ConvertTo(m_storage, index, [signed |-> FALSE, size |-> 4, longlong |-> FALSE]).success

\* ----------------------------------------------------------------- render

\* Text is the tuple of the codes of its characters.
TextTrue == << 116, 114, 117, 101 >>
TextFalse == << 102, 97, 108, 115, 101 >>
TextCustom == << 34, 67, 117, 115, 116, 111, 109, 35 >>
HexUpper == << 48, 49, 50, 51, 52, 53, 54, 55, 56, 57, 65, 66, 67, 68, 69, 70 >>

\* A JsonRenderer: m_pretty, m_newLine and m_indentSpaces.
Renderers ==
    [pretty : BOOLEAN, newLine : { << 10 >>, << 13, 10 >> },
     indentSpaces : { 0, 2 }]

\* RenderString that writes the bytes of the string and nothing else.
RenderStringBare(value) == value

\* RenderString(value): the string between quotes, with control characters,
\* the quote and the backslash escaped.
RenderString(value) ==
    LET Escaped(ch) ==
            IF ch = 8 THEN << 92, 98 >>
            ELSE IF ch = 9 THEN << 92, 116 >>
            ELSE IF ch = 10 THEN << 92, 110 >>
            ELSE IF ch = 12 THEN << 92, 102 >>
            ELSE IF ch = 13 THEN << 92, 114 >>
            ELSE IF ch < 32
            THEN << 92, 117, 48, 48, HexUpper[(ch \div 16) + 1],
                    HexUpper[(ch % 16) + 1] >>
            ELSE IF ch = 34 \/ ch = 92 THEN << 92, ch >>
            ELSE << ch >>
        Chars[k \in 0..Len(value)] ==
            IF k = 0 THEN << >> ELSE Chars[k - 1] \o Escaped(value[k])
    IN << 34 >> \o Chars[Len(value)] \o << 34 >>

\* RenderNewline(): m_newLine and m_indent spaces.
RenderNewline(renderer, m_indent) ==
    renderer.newLine \o [k \in 1..m_indent |-> 32]

\* JsonImplementType<bool>::GetUnchecked: data of 1 or of 4 bytes that is
\* not 0.  Data of another size is false (and fails an assert).
GetUncheckedBool(s, index) ==
    /\ m_cbData(s, index) \in { 1, 4 }
    /\ \E k \in 1..m_cbData(s, index) : Data(s, index)[k] # 0

\* snprintf("%u") of a type.
Decimal(n) ==
    (IF n >= 100 THEN << 48 + (n \div 100) >> ELSE << >>)
       \o (IF n >= 10 THEN << 48 + ((n \div 10) % 10) >> ELSE << >>)
       \o << 48 + (n % 10) >>

\* RenderCustom(it): "Custom#<type>" between quotes.
RenderCustom(s, it) == TextCustom \o Decimal(m_type(s, it)) \o << 34 >>

\* RenderValue(it) and RenderStructure(itParent, showNames), with the loop
\* of RenderStructure from `it` on.  m_indent is passed along.  (The values
\* of this model are booleans, arrays and objects; a value of another type
\* is rendered as a custom value is.)
RECURSIVE RenderValue(_, _, _, _)
RECURSIVE RenderStructure(_, _, _, _, _)
RECURSIVE RenderStructureLoop(_, _, _, _, _, _, _)
RenderValue(s, renderer, it, m_indent) ==
    IF m_type(s, it) = JsonObject
    THEN RenderStructure(s, renderer, it, TRUE, m_indent)
    ELSE IF m_type(s, it) = JsonArray
    THEN RenderStructure(s, renderer, it, FALSE, m_indent)
    ELSE IF m_type(s, it) = JsonBool
    THEN (IF GetUncheckedBool(s, it) THEN TextTrue ELSE TextFalse)
    ELSE RenderCustom(s, it)

RenderStructureLoop(s, renderer, it, itEnd, showNames, m_indent, fuel) ==
    LET one ==
            (IF renderer.pretty THEN RenderNewline(renderer, m_indent)
             ELSE << >>)
               \o (IF showNames
                   THEN RenderString(Name(s, it)) \o << 58 >>
                           \o (IF renderer.pretty THEN << 32 >> ELSE << >>)
                   ELSE << >>)
               \o RenderValue(s, renderer, it, m_indent)
        next == NextIndex(s, it)
    IN IF next = itEnd \/ fuel = 0 THEN one
       ELSE one \o << 44 >>
               \o RenderStructureLoop(s, renderer, next, itEnd, showNames,
                                      m_indent, fuel - 1)

RenderStructure(s, renderer, itParent, showNames, m_indent) ==
    LET it == cbeginOf(s, itParent)
        itEnd == cendOf(s, itParent)
    IN << IF showNames THEN 123 ELSE 91 >>
          \o (IF it # itEnd
              THEN RenderStructureLoop(s, renderer, it, itEnd, showNames,
                                       m_indent + renderer.indentSpaces,
                                       Size(s))
                      \o (IF renderer.pretty
                          THEN RenderNewline(renderer, m_indent) ELSE << >>)
              ELSE << >>)
          \o << IF showNames THEN 125 ELSE 93 >>

\* Render(builder): the structure of the root; the 0 written behind it is
\* not part of the string_view returned.
Render(s, renderer) ==
    LET m_renderBuffer == RenderStructure(s, renderer, 0, TRUE, 0) \o << 0 >>
    IN SubSeq(m_renderBuffer, 1, Len(m_renderBuffer) - 1)

\* What a caller that renders a builder puts into it.
RenderTypes == { JsonBool, JsonArray, JsonObject }
RenderData(type) == IF type = JsonBool THEN { << 0 >>, << 1 >> } ELSE { << >> }

NextRender ==
    \/ /\ Cardinality(issued) < MaxRenderValues
       /\ \E front \in BOOLEAN, itParent \in Iterators, name \in NameSet,
             type \in RenderTypes :
             \E data \in RenderData(type) :
                AddValue(front, itParent, name, type, Len(data), data)
    \/ \E itValue \in Iterators : erase(itValue)
    \/ clear

SpecRender == Init /\ [][NextRender]_vars

\* The text the claim describes for the value n and for the children of a
\* parent from the k-th on, by the arguments of the calls that made them.
RECURSIVE TextOfValue(_)
RECURSIVE TextOfChildren(_, _, _)
TextOfComposite(p, named) ==
    << IF named THEN 123 ELSE 91 >>
       \o TextOfChildren(Visible(p), 1, named)
       \o << IF named THEN 125 ELSE 93 >>

TextOfValue(n) ==
    IF given[n].type = JsonObject THEN TextOfComposite(n, TRUE)
    ELSE IF given[n].type = JsonArray THEN TextOfComposite(n, FALSE)
    ELSE IF given[n].data = << 0 >> THEN TextFalse ELSE TextTrue

TextOfChildren(children, k, named) ==
    IF k > Len(children) THEN << >>
    ELSE (IF named
          THEN << 34 >> \o given[children[k]].name \o << 34, 58 >>
          ELSE << >>)
            \o TextOfValue(children[k])
            \o (IF k < Len(children) THEN << 44 >> ELSE << >>)
            \o TextOfChildren(children, k + 1, named)

CompactRenderers == { renderer \in Renderers : ~renderer.pretty }

\* C28: in compact mode Render emits '{', the visible children of the root
\* in child-list order as quoted name, ':' and value, separated by ',', and
\* '}'; objects alike, arrays with '[' ']' and without names; erased
\* children are left out, an empty composite or builder is '{}' or '[]',
\* and nothing follows the closing brace of the root.
C28_RenderCompact ==
    \A renderer \in CompactRenderers :
       Render(m_storage, renderer) = TextOfComposite(0, TRUE)

C28_Witness ==
    /\ \E a \in issued \ erased, o \in issued \ erased :
          /\ given[a].type = JsonArray /\ given[a].parent = 0
          /\ given[o].type = JsonObject /\ given[o].parent = a
          /\ \E b \in issued : given[b].parent = o /\ given[b].name # << >>
    /\ erased # {}
    /\ Render(m_storage, [pretty |-> FALSE, newLine |-> << 10 >>, indentSpaces |-> 2])
          = << 123, 34, 34, 58, 91, 123, 125, 93, 125 >>

\* ------------------------------------------------- children are contiguous

\* The arrays and objects ever created since the last clear(), erased ones
\* included, and the root once it exists.
EverComposite ==
    IF Size(m_storage) = 0 THEN {}
    ELSE {0} \cup { n \in issued : IS_COMPOSITE_TYPE(given[n].type) }

\* The path from the sentinel of p along m_nextIndex to m_lastChildIndex.
PathOf(p) == << FirstChild(m_storage, p) >> \o ChildChain(m_storage, p)

\* C29: for every array or object P ever created, m_nextIndex leads from
\* P's sentinel to P's m_lastChildIndex without passing index 0; the nodes
\* on the way are P's sentinel and the nodes linked as children of P, hidden
\* or not; the paths of two composites share no node.
C29_ChildrenContiguous ==
    /\ \A p \in EverComposite :
          /\ PathOf(p)[Len(PathOf(p))] = LastChild(m_storage, p)
          /\ 0 \notin SeqToSet(PathOf(p))
          /\ NoDuplicates(PathOf(p))
          /\ SeqToSet(PathOf(p))
                = { FirstChild(m_storage, p) } \cup SeqToSet(reference[p])
    /\ \A p \in EverComposite, q \in EverComposite :
          p # q => SeqToSet(PathOf(p)) \cap SeqToSet(PathOf(q)) = {}

C29_Witness ==
    /\ splices > 0
    /\ \E p \in EverComposite, q \in EverComposite :
          /\ p # q
          /\ Len(PathOf(p)) > 1
          /\ Len(PathOf(q)) > 1
          /\ SeqToSet(reference[q]) \cap erased # {}

\* ------------------------------------------------------- no children left

\* The arrays and objects of the builder that are not erased, the root
\* included.
LiveComposites ==
    IF Size(m_storage) = 0 THEN {}
    ELSE { p \in Iterators : IS_COMPOSITE_TYPE(m_type(m_storage, p)) }

FirstIsLast(p) == FirstChild(m_storage, p) = LastChild(m_storage, p)

\* FirstChild(P) == LastChild(P) exactly if P has no visible children.
C30_AsClaimed ==
    \A p \in LiveComposites : FirstIsLast(p) <=> Visible(p) = << >>

\* C30: FirstChild(P) == LastChild(P) exactly if no node is linked as a
\* child of P, visible or hidden; then P has no visible children, and
\* begin(P) is end(P).  (A parent whose children are all erased has no
\* visible children either, but its FirstChild is not its LastChild.)
C30_FirstIsLast ==
    \A p \in LiveComposites :
       /\ FirstIsLast(p) <=> reference[p] = << >>
       /\ FirstIsLast(p) => Visible(p) = << >>
       /\ Visible(p) = << >> <=>
             cbeginOf(m_storage, p) = cendOf(m_storage, p)

C30_Witness ==
    \E p \in LiveComposites :
       /\ p # 0
       /\ Visible(p) = << >>
       /\ ~FirstIsLast(p)
       /\ cbeginOf(m_storage, p) = cendOf(m_storage, p)

\* ------------------------------------------------------------- sentinels

\* Where the claim puts the sentinel of the composite p: behind the three
\* units of the node and the units of its name.
SentinelOf(p) ==
    p + 3 + (IF p = 0 THEN 0 ELSE (Len(given[p].name) + 3) \div 4)

\* Every array and object ever created has its sentinel in place.
SentinelsInPlace ==
    \A p \in EverComposite :
       /\ SentinelOf(p) + 1 \in DOMAIN m_storage
       /\ m_type(m_storage, SentinelOf(p)) = JsonHidden
       /\ m_cchName(m_storage, SentinelOf(p)) = 0
       /\ SentinelOf(p) = FirstChild(m_storage, p)

\* C31: every array or object is followed, at index + 3 + ceil(name
\* length / 4), by a Hidden node with name length 0, there from the insert
\* that made the composite on; no insert, erase or splice changes the type
\* or the place of a sentinel (clear() ends it with its composite).
C31_Sentinels ==
    [][/\ SentinelsInPlace
       /\ Size(m_storage') # 0 =>
             \A p \in EverComposite :
                /\ p \in EverComposite'
                /\ SentinelOf(p)' = SentinelOf(p)
                /\ m_storage'[SentinelOf(p) + 1] = m_storage[SentinelOf(p) + 1]
       /\ \A n \in issued' \ issued :
             IS_COMPOSITE_TYPE(given'[n].type) =>
                /\ m_type(m_storage', SentinelOf(n)') = JsonHidden
                /\ m_cchName(m_storage', SentinelOf(n)') = 0]_vars

C31_Witness ==
    /\ splices > 0
    /\ \E p \in EverComposite \cap erased : given[p].name # << >>
    /\ \E p \in EverComposite \ erased : p # 0 /\ reference[p] # << >>

\* ------------------------------------------------------------------ root

\* The root object with its sentinel is at its place.
RootInPlace(s) ==
    /\ Size(s) >= RootSize
    /\ m_type(s, 0) = JsonObject
    /\ m_cchName(s, 0) = 0
    /\ m_type(s, 3) = JsonHidden
    /\ m_cchName(s, 3) = 0

\* C32: the arena has size 0 until the first insert; from then until
\* clear() index 0 holds an Object with name length 0 and index 3 its
\* Hidden sentinel; no later insert, erase or splice makes another root or
\* changes the type or name length of the root; erase of index 0 ends the
\* program.
C32_RootOnce ==
    [][/\ Size(m_storage) = 0 <=> issued = {}
       /\ Size(m_storage) # 0 => RootInPlace(m_storage)
       /\ Size(m_storage) = 0 /\ Size(m_storage') # 0 =>
             /\ issued' = { RootSize }
             /\ RootInPlace(m_storage')
             /\ \A i \in { 1, DATA_OFFSET(0) + 1 } :
                   m_storage'[i] = CreateRoot[i]
       /\ Size(m_storage) # 0 /\ Size(m_storage') # 0 =>
             /\ m_storage'[1] = m_storage[1]
             /\ m_storage'[4] = m_storage[4]
             /\ issued' \ issued \subseteq { Size(m_storage) }
             /\ EnsureRootExists(m_storage') = m_storage'
       /\ \A ndebug \in Builds :
             eraseCall(m_storage, Iter("this", 0), ndebug) = "terminate"]_vars

C32_Witness ==
    /\ Cardinality(issued) = MaxValues
    /\ erased # {}
    /\ splices > 0
    /\ RootInPlace(m_storage)

\* ------------------------------------------------------------- one cycle

\* Every node ever committed since the last clear(): the values inserted
\* (erased or not) and the sentinels of the root and of the arrays.
Committed ==
    issued \cup { SentinelOf(p) : p \in EverComposite }

\* C33: in every non-empty state m_nextIndex leads from the root through
\* every node ever committed (leaves, composites, sentinels, erased nodes)
\* exactly once and then back to index 0; the root is on no composite's
\* path of children.
C33_OneCycle ==
    Size(m_storage) # 0 =>
       /\ NoDuplicates(FlatList(m_storage))
       /\ SeqToSet(FlatList(m_storage)) = Committed
       /\ Len(FlatList(m_storage)) = Cardinality(Committed)
       /\ m_nextIndex(m_storage, FlatList(m_storage)[Len(FlatList(m_storage))]) = 0
       /\ \A p \in EverComposite : 0 \notin SeqToSet(PathOf(p))

C33_Witness ==
    /\ splices > 0
    /\ erased # {}
    /\ Cardinality(EverComposite) > 2
    /\ Len(FlatList(m_storage)) = Cardinality(Committed)
    /\ \E p \in EverComposite : p # 0 /\ reference[p] # << >>

\* ------------------------------------------------------ Hidden is terminal

\* The committed nodes whose type is Hidden: erased values and sentinels.
HiddenNodes == { n \in Committed : m_type(m_storage, n) = JsonHidden }

\* C34: a committed node whose type is Hidden, through erase or as a
\* sentinel from its creation, is Hidden after every insert, erase and
\* splice; only clear() ends it.  Every erased value and every sentinel is
\* such a node.
C34_HiddenTerminal ==
    [][/\ erased \cup { SentinelOf(p) : p \in EverComposite } \subseteq HiddenNodes
       /\ Size(m_storage') # 0 =>
             \A n \in HiddenNodes :
                /\ n + 1 \in DOMAIN m_storage'
                /\ m_type(m_storage', n) = JsonHidden
                /\ n \in HiddenNodes']_vars

C34_Witness ==
    /\ splices > 0
    /\ Cardinality(erased) > 1
    /\ Cardinality(HiddenNodes) > 3
    /\ Cardinality(issued) = MaxValues

\* ------------------------------------------------------ frame of an insert

\* The builder of a caller that adds leaves and arrays, at the front and at
\* the back of the root and of the arrays, in two steps, with names and
\* payloads of its own; an allocation may fail.
NextGrowTree ==
    \/ /\ Cardinality(issued) < MaxTreeValues
       /\ \E front \in BOOLEAN, itParent \in Iterators, len \in { 1, 5 },
             type \in TypeSet, newData \in Addresses, fail \in BOOLEAN :
             NewValueInit(front, itParent, View(0, 0, len),
                          UnitOf(Len(DataOf(type))), type,
                          UnitOf(Len(DataOf(type))),
                          View(0, CallerPayloadAt, Len(DataOf(type))),
                          newData, fail, Stale)
    \/ \E newData \in Addresses, fail \in BOOLEAN :
          newValueCommit(newData, fail, Stale)

SpecGrowTree == Init /\ [][NextGrowTree]_vars

\* The units of the arena that a step changes.
ChangedUnits == { i \in DOMAIN m_storage : m_storage'[i] # m_storage[i] }

\* C35: a successful insert, also one that reallocates the arena, leaves
\* every committed node at its index with its type, name length, name,
\* payload size and payload; of the units of the arena it changes only the
\* m_nextIndex of the node the new one is linked after, the m_nextIndex of
\* the root when the new node is an array or object, and the
\* m_lastChildIndex of the parent.
C35_InsertFrame ==
    [][Size(m_storage) # 0 /\ thrown' = "none" =>
          /\ issued \subseteq issued'
          /\ DOMAIN m_storage \subseteq DOMAIN m_storage'
          /\ \A n \in issued :
                /\ given'[n] = given[n]
                /\ m_type(m_storage', n) = m_type(m_storage, n)
                /\ m_cchName(m_storage', n) = m_cchName(m_storage, n)
                /\ Name(m_storage', n) = Name(m_storage, n)
                /\ IS_NORMAL_TYPE(m_type(m_storage, n)) =>
                      /\ m_cbData(m_storage', n) = m_cbData(m_storage, n)
                      /\ Data(m_storage', n) = Data(m_storage, n)
          /\ issued' = issued => ChangedUnits = {}
          /\ \A new \in issued' \ issued :
                /\ new = Size(m_storage)
                /\ ChangedUnits \subseteq
                      { given'[new].parent + 2 }
                         \cup { i \in {0} \cup Committed :
                                   m_nextIndex(m_storage', i) = new }
                         \cup { i \in {0} :
                                   /\ IS_COMPOSITE_TYPE(given'[new].type)
                                   /\ m_nextIndex(m_storage', 0)
                                         = FirstChild(m_storage', new) }
                /\ Cardinality({ i \in {0} \cup Committed :
                                    m_nextIndex(m_storage', i) = new }) = 1]_vars

C35_Witness ==
    /\ Cardinality(issued) = MaxTreeValues
    /\ m_capacity > MinCapacity
    /\ \E n \in issued : given[n].moved
    /\ \E n \in issued : IS_COMPOSITE_TYPE(given[n].type) /\ reference[n] # << >>

\* --------------------------------------------------- splice of nothing

\* The predicates that accept no visible child of itOldParent: the one that
\* accepts nothing, and the one that accepts every other node (erased
\* children of itOldParent among them).
AcceptNoChild(itOldParent) ==
    { {}, issued \ SeqToSet(IterateChildren(m_storage, itOldParent)) }

\* C36: a splice_front / splice_back that has nothing to move - the old
\* parent is no array or object, the builder is empty, the old parent has
\* no linked children, or the predicate accepts no visible child - and
\* returns leaves every m_nextIndex and every m_lastChildIndex, and every
\* other unit of the arena, as it was.
C36_SpliceNothing ==
    \A front \in BOOLEAN, itOldParent \in Iterators, itNewParent \in Iterators :
       (~CanIterateOver(m_storage, itOldParent)
           \/ IS_COMPOSITE_TYPE(m_type(m_storage, itNewParent))) =>
          /\ \A sel \in AcceptNoChild(itOldParent) :
                SpliceStorage(m_storage, front, itOldParent, itNewParent, sel)
                   = m_storage
          /\ (\/ ~CanIterateOver(m_storage, itOldParent)
              \/ FirstIsLast(itOldParent)) =>
                \A sel \in SUBSET issued :
                   SpliceStorage(m_storage, front, itOldParent, itNewParent, sel)
                      = m_storage

C36_Witness ==
    /\ \E itOldParent \in LiveComposites :
          /\ Visible(itOldParent) # << >>
          /\ SeqToSet(reference[itOldParent]) \cap erased # {}
          /\ \E itNewParent \in LiveComposites :
                /\ itNewParent # itOldParent
                /\ itNewParent # 0
                /\ \A sel \in AcceptNoChild(itOldParent) :
                      SpliceStorage(m_storage, TRUE, itOldParent, itNewParent, sel)
                         = m_storage
    /\ \E p \in issued \ erased : ~IS_COMPOSITE_TYPE(given[p].type)

\* ---------------------------------------------------------------- begin()

\* erase(begin()) does what the claim says: the root has one visible child
\* less and the iterator returned is the new begin().
EraseOfBeginTakesRootChild ==
    cbegin(m_storage) # 0 =>
       LET s2 == eraseStorage(m_storage, cbegin(m_storage))
       IN /\ count(s2, 0) = count(m_storage, 0) - 1
          /\ NextIndex(s2, cbegin(m_storage)) = cbegin(s2)

\* begin() is begin(root()), and erase(begin()) takes the first visible
\* child of the root away, whatever the children of the root hold.
C37_AsClaimed ==
    /\ cbegin(m_storage) = cbeginOf(m_storage, 0)
    /\ EraseOfBeginTakesRootChild

\* The first node of the list of all nodes that is not hidden, or end().
FirstShown(q) ==
    IF \E k \in 1..Len(q) : m_type(m_storage, q[k]) # JsonHidden
    THEN q[CHOOSE k \in 1..Len(q) :
              /\ m_type(m_storage, q[k]) # JsonHidden
              /\ \A j \in 1..(k - 1) : m_type(m_storage, q[j]) = JsonHidden]
    ELSE 0

\* Some array or object other than the root has a child that is not erased.
NestedShown ==
    \E p \in EverComposite \ {0} : SeqToSet(reference[p]) \ erased # {}

\* C37: begin() designates the first node after the root, in the list of
\* all nodes, that is not hidden.  It is begin(root()), and erase(begin())
\* takes the first visible child of the root away and returns the new
\* begin(), as long as no array or object other than the root has a child
\* that is not erased.
C37_BeginFlat ==
    /\ cbegin(m_storage) = FirstShown(FlatList(m_storage))
    /\ ~NestedShown =>
          /\ cbegin(m_storage) = cbeginOf(m_storage, 0)
          /\ EraseOfBeginTakesRootChild

\* The root has an array with a child, and begin() is that child and not
\* the first child of the root.
C37_Witness ==
    /\ NestedShown
    /\ cbegin(m_storage) # cbeginOf(m_storage, 0)
    /\ cbeginOf(m_storage, 0) # 0
    /\ \E p \in LiveComposites \ {0} : cbegin(m_storage) \in SeqToSet(reference[p])
    /\ count(eraseStorage(m_storage, cbegin(m_storage)), 0) = count(m_storage, 0)

\* ------------------------------------------------- splice loses no node

\* The visible nodes that a walk of the tree finds below itParent:
\* begin(itParent), ++, ... end(itParent), and the same below every child.
RECURSIVE TreeUnder(_, _, _)
TreeUnder(s, itParent, depth) ==
    LET children == SeqToSet(IterateChildren(s, itParent)) \ {Size(s)}
    IN IF depth = 0 THEN children
       ELSE children \cup
            UNION { TreeUnder(s, it, depth - 1) : it \in children }

\* The visible nodes reachable from the root by tree traversal.
TreeNodes(s) == IF Size(s) = 0 THEN {} ELSE TreeUnder(s, 0, Cardinality(issued))

\* The selected children and everything below them.
MovedSubtrees(s, sel) ==
    sel \cup UNION { TreeUnder(s, it, Cardinality(issued)) : it \in sel }

\* The calls of splice that the documentation allows: the new parent is an
\* array or an object.
SpliceAllowed(itNewParent) ==
    Size(m_storage) # 0 /\ IS_COMPOSITE_TYPE(m_type(m_storage, itNewParent))

\* Every allowed splice - also one into the old parent itself, into one of
\* the children being moved, or between parents the root does not reach -
\* leaves the set of visible nodes reachable from the root as it was.
C38_AsClaimed ==
    \A front \in BOOLEAN, itOldParent \in Iterators, itNewParent \in Iterators :
       SpliceAllowed(itNewParent) =>
          \A sel \in SUBSET SeqToSet(IterateChildren(m_storage, itOldParent)) :
             TreeNodes(SpliceStorage(m_storage, front, itOldParent,
                                     itNewParent, sel))
                = TreeNodes(m_storage)

\* C38: a splice_front / splice_back whose new parent is an array or object,
\* whose two parents are both the root or reachable from the root, and
\* whose new parent is neither one of the children being moved nor below
\* one of them, loses no node: the visible nodes reachable from the root by
\* tree traversal are the same before and after, also when the new parent
\* is the old parent.
C38_SpliceKeeps ==
    \A front \in BOOLEAN, itOldParent \in Iterators, itNewParent \in Iterators :
       (/\ SpliceAllowed(itNewParent)
        /\ {itOldParent, itNewParent} \subseteq {0} \cup TreeNodes(m_storage)) =>
          \A sel \in SUBSET SeqToSet(IterateChildren(m_storage, itOldParent)) :
             itNewParent \notin MovedSubtrees(m_storage, sel) =>
                TreeNodes(SpliceStorage(m_storage, front, itOldParent,
                                        itNewParent, sel))
                   = TreeNodes(m_storage)

\* An array below the root has a visible child; moving it into the root
\* changes the arena and keeps the tree's nodes, and so does moving the
\* children of the root within the root.
C38_Witness ==
    /\ \E itOldParent \in TreeNodes(m_storage) :
          /\ IterateChildren(m_storage, itOldParent) # << >>
          /\ LET s2 == SpliceStorage(m_storage, TRUE, itOldParent, 0,
                          SeqToSet(IterateChildren(m_storage, itOldParent)))
             IN /\ s2 # m_storage
                /\ TreeNodes(s2) = TreeNodes(m_storage)
                /\ count(s2, itOldParent) = 0
    /\ \E it \in SeqToSet(IterateChildren(m_storage, 0)) :
          LET s2 == SpliceStorage(m_storage, TRUE, 0, 0, {it})
          IN s2 # m_storage /\ TreeNodes(s2) = TreeNodes(m_storage)

\* ------------------------------------- the queries on every node of begin()

\* The nodes that begin(), ++, ... until end() deliver: the nodes of the
\* list of all nodes that are not hidden, the root left out.
Delivered(s) ==
    { n \in Walked(s) \ {0} : n + 1 \in DOMAIN s /\ m_type(s, n) # JsonHidden }

\* begin(node), end(node), count(node) and find(node, name) come to an end
\* and read no unit at an index >= size.
QueriesClean(s, n) ==
    /\ CleanRun(countRun(s, n))
    /\ CleanRun(cbeginOfRun(s, n))
    /\ CleanRun(cendOfRun(s, n))
    /\ \A name \in QueryNames : CleanRun(FindImplRun(s, n, name))

\* On a buffer that Validate has accepted the four queries are clean on
\* every node that begin(), ++ deliver, reached by the tree walk or not.
C39_AsClaimed ==
    WholeUnits /\ Validate(RawStorage) =>
       \A n \in Delivered(RawStorage) : QueriesClean(RawStorage, n)

\* C39: when Validate has accepted a buffer, begin() and every ++ up to
\* end() come to an end and read no unit at an index >= size, every node
\* they deliver lies within the buffer, and begin(node), end(node),
\* count(node) and find(node, name) come to an end and read no unit at an
\* index >= size on every delivered node that is no array or object or that
\* the tree walk from the root has entered.
C39_FlatIteration ==
    WholeUnits /\ Validate(RawStorage) =>
       LET s == RawStorage
       IN /\ \A n \in {0} \cup Delivered(s) :
                CleanRun(NextIndexRun(s, Quiet, n, Size(s)))
          /\ \A n \in Delivered(s) :
                /\ InBounds(s, n)
                /\ (n \notin Composites(s) \/ n \in Entered(s))
                      => QueriesClean(s, n)

\* Validate has accepted bytes that are not those of the builder; begin(),
\* ++ deliver a node that the tree walk does not reach, and an array or
\* object that it does.
C39_Witness ==
    /\ WholeUnits
    /\ pbRawData # buffer_data(m_storage)
    /\ Validate(RawStorage)
    /\ \E n \in Delivered(RawStorage) :
          /\ n \notin SeqToSet(TreeWalk(RawStorage).met)
          /\ QueriesClean(RawStorage, n)
    /\ \E n \in Delivered(RawStorage) \cap Entered(RawStorage) :
          QueriesClean(RawStorage, n)

====
